---- MODULE Spec2Model ----
(***************************************************************************)
(* Verification model of the frontend gateway client (package grpcclient): *)
(* the Run driver, the exec message forwarder (messageForwarder), the      *)
(* per-process mailbox (procMessageForwarder) and the container process    *)
(* tasks.  Go channel operations are modelled at the granularity of one    *)
(* select statement: a goroutine entering a select either takes one of the *)
(* cases that can proceed or parks, and a parked goroutine is completed by *)
(* the first operation of another goroutine that makes a case proceed.     *)
(***************************************************************************)
EXTENDS Integers, Sequences, FiniteSets, TLC

Nil == "nil"

\* ------------------------------------------------------------------------
\* Bounds of the model
\* ------------------------------------------------------------------------
\* calls each harness thread makes on the mailbox
MaxCalls == 2

\* ------------------------------------------------------------------------
\* State
\* ------------------------------------------------------------------------
\* the mailbox harness
VARIABLES hb,       \* the mailbox under test
          hth,      \* harness thread -> its position in Send / Recv / Close
          hctx,     \* harness thread -> its context is cancelled
          hcalls,   \* harness thread -> calls begun so far
          panicked  \* a goroutine panicked (the program has crashed)

hvars == <<hb, hth, hctx, hcalls>>

\* the exec multiplexer and the container processes
VARIABLES env,       \* what the daemon may send and the callers may ask for
          caps,      \* c.caps: the frontend-API capabilities the peer announced
          rpcs,      \* the unary RPCs issued so far, in order
          nctr,      \* containers handed out by NewContainer
          ncalls,    \* calls of NewContainer so far
          stream,    \* m.stream: Nil or "open"
          startOnce, \* m.startOnce has run
          startErr,  \* m.startErr
          mctxDone,  \* m.ctx is cancelled
          mu,        \* holder of m.mu, or Nil
          pids,      \* the process ids that have a mailbox in m.pids
          mb,        \* process id -> its mailbox
          pump,      \* the inbound pump goroutine: [pc, msg, drops]
          pumpErr,   \* what the pump goroutine returned (m.eg's error)
          nprod,     \* the number of messages stream.Recv has produced
          streamFin, \* the stream has terminated (Recv returned an error)
          sent,      \* the calls of stream.Send, in order, with their outcome
          rel,       \* the call of Release: [pc, err, parked, nsent, ngot]
          proc       \* process id -> container process state

mvars == <<stream, startOnce, startErr, mctxDone, mu, pids, mb, pump, pumpErr,
           nprod, streamFin, sent, rel>>
evars == <<env, caps, rpcs, nctr, ncalls, mvars, proc>>

\* the Run driver
VARIABLES run,       \* the call of Run: its position, res, err, retError, and
                     \* what the build function and the Return RPC returned
          requests   \* c.requests: ref id -> the SolveRequest that produced it

rvars == <<run, requests>>

\* the callers of the client API
VARIABLES starts,    \* the calls of messageForwarder.Start: each caller's
                     \* position and named result err, and how often the
                     \* stream was opened and the pump spawned
          api,       \* the last call of Solve, Inputs, ReadDir, StatFile or
                     \* NewContainer: its arguments, what it returned, and
                     \* the RPCs and stream messages issued before it
          llbCaps,   \* c.llbCaps: the LLB capabilities the peer announced
          peer,      \* New: whether Ping was answered, and the capability
                     \* lists of its response (nil or a list of ids)
          snd        \* goroutine -> its call of messageForwarder.Send: its
                     \* position, the message and the calls made so far

avars == <<starts, api, llbCaps, peer, snd>>
ovars == <<hvars, rvars, avars>>

vars == <<hvars, evars, rvars, avars, panicked>>

\* ------------------------------------------------------------------------
\* procMessageForwarder: done chan, closeOnce, msgs chan (unbuffered)
\* ------------------------------------------------------------------------
\* newProcMessageForwarder: both channels open, the once unused
NewMailbox == [done |-> FALSE, once |-> FALSE, closed |-> FALSE]

\* The cases of Send's select that can proceed: ctx.Done() is closed, b.done
\* is closed, or the send on b.msgs proceeds - by handing the message to a
\* receiver parked on b.msgs or, when b.msgs is closed, by panicking.
SendCases(b, ctxDone, rcvParked) ==
    (IF ctxDone THEN {"ctx"} ELSE {})
    \cup (IF b.done THEN {"done"} ELSE {})
    \cup (IF b.closed THEN {"panic"} ELSE IF rcvParked THEN {"send"} ELSE {})

\* The cases of Recv's select that can proceed: ctx.Done() is closed, b.done
\* is closed, or the receive on b.msgs proceeds - from a sender parked on
\* b.msgs or, when b.msgs is closed, with the zero value.
RecvCases(b, ctxDone, sndParked) ==
    (IF ctxDone THEN {"ctx"} ELSE {})
    \cup (IF b.done THEN {"done"} ELSE {})
    \cup (IF b.closed THEN {"closed"} ELSE IF sndParked THEN {"msg"} ELSE {})

\* What Recv returns for the case taken: (nil, true) on ctx, (nil, false) on
\* done, (m, true) from b.msgs where m is nil when b.msgs is closed; nil is
\* the model's nil message.
RecvResult(case, m, nil) ==
    CASE case = "ctx" -> [m |-> nil, ok |-> TRUE]
      [] case = "done" -> [m |-> nil, ok |-> FALSE]
      [] case = "closed" -> [m |-> nil, ok |-> TRUE]
      [] OTHER -> [m |-> m, ok |-> TRUE]

\* closeOnce.Do(func() { close(b.msgs) }) in Send's done case
CloseMsgsOnce(b) == IF b.once THEN b ELSE [b EXCEPT !.once = TRUE, !.closed = TRUE]

\* close(b.done), the first statement of Close
CloseDone(b) == [b EXCEPT !.done = TRUE]

\* ------------------------------------------------------------------------
\* Mailbox harness: one mailbox used by concurrent Send, Recv and Close
\* callers
\* ------------------------------------------------------------------------

HSenders == {"s1", "s2"}
HReceivers == {"r1"}
HCloser == "closer"
HThreads == HSenders \cup HReceivers \cup {HCloser}

\* pc: "idle" (between calls), "sel" (entering the select), "parked",
\* "wokeDone" (a parked Send woken by close(done), before its case body),
\* "ret" (the call returned), "panic" (the send on the closed b.msgs
\* panicked); for the closer "recv", "send", "closed".
\* after: the call began after Close had returned.
HThreadInit == [pc |-> "idle", m |-> Nil, ok |-> FALSE, after |-> FALSE]

HInit ==
    /\ hb = NewMailbox
    /\ hth = [t \in HThreads |-> HThreadInit]
    /\ hctx = [t \in HThreads |-> FALSE]
    /\ hcalls = [t \in HThreads |-> 0]

HParked(S) == {t \in S : hth[t].pc = "parked"}

\* a caller begins Send(ctx, m) or Recv(ctx)
HCall(t) ==
    /\ ~panicked
    /\ t \in HSenders \cup HReceivers
    /\ hth[t].pc \in {"idle", "ret"}
    /\ hcalls[t] < MaxCalls
    /\ hcalls' = [hcalls EXCEPT ![t] = @ + 1]
    /\ hth' = [hth EXCEPT ![t] = [pc |-> "sel",
                                  m |-> IF t \in HSenders THEN t ELSE Nil,
                                  ok |-> FALSE,
                                  after |-> hth[HCloser].pc = "closed"]]
    /\ UNCHANGED <<hb, hctx, panicked>>
    /\ UNCHANGED <<evars, rvars, avars>>

\* the caller's context is cancelled; goroutines parked on it are woken
HCancel(t) ==
    /\ ~panicked
    /\ t \in HSenders \cup HReceivers
    /\ ~hctx[t]
    /\ hctx' = [hctx EXCEPT ![t] = TRUE]
    /\ hth' = [hth EXCEPT ![t] =
                 IF @.pc = "parked"
                 THEN [@ EXCEPT !.pc = "ret", !.m = IF t \in HReceivers THEN Nil ELSE @,
                                !.ok = t \in HReceivers]
                 ELSE @]
    /\ UNCHANGED <<hb, hcalls, panicked>>
    /\ UNCHANGED <<evars, rvars, avars>>

\* the effect of one case of Send's select, taken by thread t with message m;
\* next is t's position after the call
HSendCase(t, case, m, next) ==
    CASE case = "ctx" ->
           /\ hth' = [hth EXCEPT ![t].pc = next]
           /\ UNCHANGED <<hb, panicked>>
      [] case = "done" ->
           /\ hb' = CloseMsgsOnce(hb)
           /\ hth' = [hth EXCEPT ![t].pc = next]
           /\ UNCHANGED panicked
      [] case = "panic" ->
           /\ panicked' = TRUE
           /\ hth' = [hth EXCEPT ![t].pc = "panic"]
           /\ UNCHANGED hb
      [] OTHER ->
           \E r \in HParked(HReceivers) :
              /\ hth' = [hth EXCEPT ![t].pc = next,
                                    ![r].pc = "ret", ![r].m = m, ![r].ok = TRUE]
              /\ UNCHANGED <<hb, panicked>>

\* the effect of one case of Recv's select, taken by thread t
HRecvCase(t, case, next) ==
    IF case = "msg"
    THEN \E s \in HParked(HSenders) :
            /\ hth' = [hth EXCEPT ![t].pc = next, ![t].m = hth[s].m, ![t].ok = TRUE,
                                  ![s].pc = "ret"]
            /\ UNCHANGED <<hb, panicked>>
    ELSE /\ hth' = [hth EXCEPT ![t].pc = next, ![t].m = RecvResult(case, Nil, Nil).m,
                               ![t].ok = RecvResult(case, Nil, Nil).ok]
         /\ UNCHANGED <<hb, panicked>>

\* procMessageForwarder.Send: the select
HSend(t) ==
    /\ ~panicked
    /\ t \in HSenders
    /\ hth[t].pc = "sel"
    /\ LET cases == SendCases(hb, hctx[t], HParked(HReceivers) # {})
       IN IF cases = {}
          THEN /\ hth' = [hth EXCEPT ![t].pc = "parked"]
               /\ UNCHANGED <<hb, panicked>>
          ELSE \E case \in cases : HSendCase(t, case, hth[t].m, "ret")
    /\ UNCHANGED <<hctx, hcalls>>
    /\ UNCHANGED <<evars, rvars, avars>>

\* a Send woken by close(done) runs the body of its done case
HSendWoke(t) ==
    /\ ~panicked
    /\ t \in HSenders
    /\ hth[t].pc = "wokeDone"
    /\ HSendCase(t, "done", hth[t].m, "ret")
    /\ UNCHANGED <<hctx, hcalls>>
    /\ UNCHANGED <<evars, rvars, avars>>

\* procMessageForwarder.Recv: the select
HRecv(t) ==
    /\ ~panicked
    /\ t \in HReceivers
    /\ hth[t].pc = "sel"
    /\ LET cases == RecvCases(hb, hctx[t], HParked(HSenders) # {})
       IN IF cases = {}
          THEN /\ hth' = [hth EXCEPT ![t].pc = "parked"]
               /\ UNCHANGED <<hb, panicked>>
          ELSE \E case \in cases : HRecvCase(t, case, "ret")
    /\ UNCHANGED <<hctx, hcalls>>
    /\ UNCHANGED <<evars, rvars, avars>>

\* procMessageForwarder.Close, first statement: close(b.done) wakes every
\* goroutine parked in a select on b.done
HCloseDone ==
    /\ ~panicked
    /\ hth[HCloser].pc = "idle"
    /\ hb' = CloseDone(hb)
    /\ hth' = [t \in HThreads |->
                 IF t = HCloser THEN [hth[t] EXCEPT !.pc = "recv"]
                 ELSE IF hth[t].pc # "parked" THEN hth[t]
                 ELSE IF t \in HSenders THEN [hth[t] EXCEPT !.pc = "wokeDone"]
                 ELSE [hth[t] EXCEPT !.pc = "ret", !.m = Nil, !.ok = FALSE]]
    /\ UNCHANGED <<hctx, hcalls, panicked>>
    /\ UNCHANGED <<evars, rvars, avars>>

\* Close, second statement: b.Recv(context.Background())
HCloseRecv ==
    /\ ~panicked
    /\ hth[HCloser].pc = "recv"
    /\ \E case \in RecvCases(hb, FALSE, HParked(HSenders) # {}) :
          HRecvCase(HCloser, case, "send")
    /\ UNCHANGED <<hctx, hcalls>>
    /\ UNCHANGED <<evars, rvars, avars>>

\* Close, third statement: b.Send(context.Background(), nil)
HCloseSend ==
    /\ ~panicked
    /\ hth[HCloser].pc = "send"
    /\ \E case \in SendCases(hb, FALSE, HParked(HReceivers) # {}) :
          HSendCase(HCloser, case, Nil, "closed")
    /\ UNCHANGED <<hctx, hcalls>>
    /\ UNCHANGED <<evars, rvars, avars>>

HNext ==
    \/ \E t \in HThreads : HCall(t)
    \/ \E t \in HThreads : HCancel(t)
    \/ \E t \in HThreads : HSend(t)
    \/ \E t \in HThreads : HSendWoke(t)
    \/ \E t \in HThreads : HRecv(t)
    \/ HCloseDone
    \/ HCloseRecv
    \/ HCloseSend

\* ------------------------------------------------------------------------
\* Exec multiplexer: messageForwarder, its inbound pump, Release
\* ------------------------------------------------------------------------

\* process ids: the container processes the callers may start, and one id
\* that is never registered
NProcs == 2
Procs == 1..NProcs
NoProc == 0
\* messages the exec stream produces in one behaviour
MaxStream == 3
\* the same where the client API is examined
MaxClientStream == 1
\* the same where the order of a process's messages is examined
MaxOrderStream == 4
\* calls of NewContainer in one behaviour
MaxContainers == 1
\* chunks the caller's stdin yields
MaxStdin == 1
\* calls of Resize and Signal on one process
MaxControl == 2
\* the messages of the stream when the termination of Wait is checked
MaxWaitStream == 2
\* the messages of the stream when the isolation of mailboxes is checked
MaxIsolationStream == 3
\* the messages of the stream when the routing of output is checked
MaxOutputStream == 4
\* the chunks a stdin yields there
MaxWaitStdin == 2

\* pb.UnknownExitStatus
UnknownExitStatus == 255
\* codes.OK and a non-OK status code carried by ExitMessage.Error
StatusOK == 0
StatusErr == 2
\* a meaningful non-zero exit code
ExitCode == 3

CapGatewayExec == "moby.buildkit.frontend.gateway.exec"
CapGatewayExecSecretEnv == "moby.buildkit.frontend.gateway.exec.secretenv"
CapReturnResult == "moby.buildkit.frontend.return"
CapReturnMap == "moby.buildkit.frontend.returnmap"
CapProtoRefArray == "moby.buildkit.frontend.protorefarray"
CapFrontendInputs == "moby.buildkit.frontend.inputs"
CapReadDir == "moby.buildkit.frontend.readdir"
CapStatFile == "moby.buildkit.frontend.statfile"
CapGatewayEvaluateSolve == "moby.buildkit.frontend.gateway.evaluate.solve"

\* LLB capabilities a definition's metadata may name
LLBCapA == "source.image"
LLBCapB == "exec.mount.ssh"
LLBCaps == {LLBCapA, LLBCapB}

\* c.caps.Supports(id) == nil
Supports(id) == id \in caps
\* c.llbCaps.Supports(id) == nil
SupportsLLB(id) == id \in llbCaps
CapError(id) == "missing capability " \o id

\* payloads of inbound exec messages
Started == [k |-> "Started"]
DoneMsg == [k |-> "Done"]
FileMsg(fd, n) == [k |-> "File", fd |-> fd, n |-> n]
ExitMsg(code, st) == [k |-> "Exit", code |-> code, st |-> st]
OtherMsg == [k |-> "Other"]

\* an inbound *pb.ExecMessage: its place in the stream, its ProcessID and its
\* payload; NoMsg is the nil message
ExecMessage(seq, pid, pl) == [seq |-> seq, pid |-> pid, pl |-> pl]
NoMsg == ExecMessage(0, NoProc, [k |-> "nil"])

\* references: nil, a *reference this client produced, a *reference another
\* grpcClient produced (its back-pointer c is that client), and another
\* implementation of client.Reference
RefNil == [type |-> "nil", id |-> "", def |-> "", c |-> ""]
RefOwn == [type |-> "reference", id |-> "r1", def |-> "d1", c |-> "c"]
RefForeign == [type |-> "reference", id |-> "f1", def |-> "", c |-> "c2"]
RefOther == [type |-> "other", id |-> "o1", def |-> "", c |-> ""]
RefVals == {RefNil, RefOwn, RefForeign, RefOther}

\* m.stream.Send: fails once the stream has terminated and may fail before;
\* TRUE is success
StreamSendOutcomes == IF streamFin THEN {FALSE} ELSE BOOLEAN

\* a variant of the pump's Send that offers its message on every mailbox
PumpParkedOnAny(p) == pump.pc = "parked"

\* the pump goroutine is parked in the Send on p's mailbox
PumpParkedOn(p) == pump.pc = "parked" /\ pump.msg.pid = p

\* a goroutine is parked in Recv on p's mailbox: container.Start awaiting
\* Started, or the event loop
ReaderParked(p) == proc[p].u = "parkedStarted" \/ proc[p].loop = "parked"

\* the derived context of the process's errgroup is cancelled: the caller's
\* context is, or a task of the group has returned an error
GroupCtxDone(pr) == pr.ctx \/ pr.egErr # Nil

\* a parked reader of p is completed with Recv's result (m, ok)
Deliver(pr, m, ok) ==
    IF pr.u = "parkedStarted"
    THEN [pr EXCEPT !.u = "checkStarted", !.rmsg = m, !.rok = ok,
                    !.got = IF m = NoMsg THEN @ ELSE Append(@, m)]
    ELSE IF pr.loop = "parked"
    THEN [pr EXCEPT !.loop = "got", !.rmsg = m, !.rok = ok,
                    !.got = IF m = NoMsg THEN @ ELSE Append(@, m)]
    ELSE pr

\* messageForwarder.Start, called with the outcome of client.ExecProcess:
\* the values of err, m.stream, m.startOnce, m.startErr and whether the pump
\* goroutine is spawned
MfStart(openOk) ==
    IF startErr # Nil
    THEN [err |-> startErr, stream |-> stream, once |-> startOnce,
          startErr |-> startErr, spawn |-> FALSE, tried |-> FALSE]
    ELSE IF startOnce
    THEN [err |-> Nil, stream |-> stream, once |-> TRUE, startErr |-> Nil,
          spawn |-> FALSE, tried |-> FALSE]
    ELSE IF openOk /\ ~mctxDone
    THEN [err |-> Nil, stream |-> "open", once |-> TRUE, startErr |-> Nil,
          spawn |-> TRUE, tried |-> TRUE]
    ELSE [err |-> "ExecProcessErr", stream |-> Nil, once |-> TRUE,
          startErr |-> "ExecProcessErr", spawn |-> FALSE, tried |-> TRUE]

\* the record of a call of the client API: n counts the calls
ApiCall(op, arg, err) == [n |-> api.n + 1, op |-> op, arg |-> arg, err |-> err]

\* a mount's Ref: the references the caller may mount
MountRefs == env.mounts

\* defaultCaps() and defaultLLBCaps(): the frozen default sets
CapSolveBase == "moby.buildkit.frontend.solve.base"
CapSolveInlineReturn == "moby.buildkit.frontend.solve.inlinereturn"
CapResolveImage == "moby.buildkit.frontend.resolveimage"
CapReadFile == "moby.buildkit.frontend.readfile"
DefaultCaps == {CapSolveBase, CapSolveInlineReturn, CapResolveImage, CapReadFile}
DefaultLLBCaps ==
    {LLBCapA, "source.local", "source.local.unique", "source.local.sessionid",
     "source.local.includepatterns", "source.local.followpaths",
     "source.local.excludepatterns", "source.local.sharedkeyhint", "source.git",
     "source.git.keepgitdir", "source.git.fullurl", "source.http",
     "source.http.checksum", "source.http.perm", "source.http.uidgid",
     "source.buildop.llbfilename", "exec.meta.base", "exec.meta.proxyenv",
     "exec.mount.bind", "exec.mount.cache", "exec.mount.cache.sharing",
     "exec.mount.selector", "exec.mount.tmpfs", "exec.mount.secret", "constraints",
     "platform", "meta.ignorecache", "meta.description", "meta.exportcache"}

\* a capability list of a PingResponse: nil, or the ids it names
CapList(isNil, ids) == [nil |-> isNil, ids |-> ids]

\* the set New makes of a list of the response: the default for a nil list
CapSetOf(list, default) == IF list.nil THEN default ELSE list.ids

\* the lists a peer may announce
PeerApiLists == {CapList(TRUE, {}), CapList(FALSE, {}),
                 CapList(FALSE, {CapGatewayExec, CapFrontendInputs}),
                 CapList(FALSE, {CapReturnResult, CapStatFile})}
PeerLLBLists == {CapList(TRUE, {}), CapList(FALSE, {LLBCapB})}

\* a variant of New that takes the defaults only when both lists are nil
NewJointDefaults ==
    /\ peer.state = "new"
    /\ rpcs' = Append(rpcs, [rpc |-> "Ping"])
    /\ \E ok \in BOOLEAN, fl \in PeerApiLists, ll \in PeerLLBLists :
          IF ~ok
          THEN /\ peer' = [state |-> "failed", api |-> CapList(TRUE, {}),
                           llb |-> CapList(TRUE, {})]
               /\ UNCHANGED <<caps, llbCaps>>
          ELSE /\ peer' = [state |-> "ok", api |-> fl, llb |-> ll]
               /\ caps' = IF fl.nil /\ ll.nil THEN DefaultCaps ELSE fl.ids
               /\ llbCaps' = IF fl.nil /\ ll.nil THEN DefaultLLBCaps ELSE ll.ids
    /\ UNCHANGED <<hvars, rvars, starts, api, snd, env, nctr, ncalls, mvars, proc, panicked>>

\* New: Ping, then the client with the capability sets of the response
New ==
    /\ peer.state = "new"
    /\ rpcs' = Append(rpcs, [rpc |-> "Ping"])
    /\ \E ok \in BOOLEAN, fl \in PeerApiLists, ll \in PeerLLBLists :
          IF ~ok
          THEN /\ peer' = [state |-> "failed", api |-> CapList(TRUE, {}),
                           llb |-> CapList(TRUE, {})]
               /\ UNCHANGED <<caps, llbCaps>>
          ELSE /\ peer' = [state |-> "ok", api |-> fl, llb |-> ll]
               /\ caps' = CapSetOf(fl, DefaultCaps)
               /\ llbCaps' = CapSetOf(ll, DefaultLLBCaps)
    /\ UNCHANGED <<hvars, rvars, starts, api, snd, env, nctr, ncalls, mvars, proc, panicked>>

\* the ResultID of the mount sent to the daemon
MountResultID(mref) == mref.id

\* grpcClient.NewContainer
NewContainer ==
    /\ ~panicked
    /\ peer.state = "ok"
    /\ run.pc \in {"none", "inF"}
    /\ ncalls < MaxContainers
    /\ ncalls' = ncalls + 1
    /\ \E mref \in MountRefs, rpcOk \in BOOLEAN, openOk \in BOOLEAN :
          IF ~Supports(CapGatewayExec)
          THEN /\ api' = ApiCall("NewContainer", mref, CapError(CapGatewayExec))
               /\ UNCHANGED <<rpcs, nctr, stream, startOnce, startErr, pump, starts>>
          ELSE IF mref.type \notin {"nil", "reference"}
          THEN /\ api' = ApiCall("NewContainer", mref, "unexpected type for reference")
               /\ UNCHANGED <<rpcs, nctr, stream, startOnce, startErr, pump, starts>>
          ELSE /\ rpcs' = Append(rpcs, [rpc |-> "NewContainer",
                                        mount |-> MountResultID(mref)])
               /\ IF ~rpcOk
                  THEN /\ api' = ApiCall("NewContainer", mref, "NewContainerRpcErr")
                       /\ UNCHANGED <<nctr, stream, startOnce, startErr, pump, starts>>
                  ELSE LET st == MfStart(openOk)
                       IN /\ stream' = st.stream
                          /\ startOnce' = st.once
                          /\ startErr' = st.startErr
                          /\ pump' = IF st.spawn THEN [pump EXCEPT !.pc = "recv"] ELSE pump
                          /\ starts' = [starts EXCEPT
                                          !.opened = IF st.tried THEN @ + 1 ELSE @,
                                          !.spawned = IF st.spawn THEN @ + 1 ELSE @]
                          /\ nctr' = IF st.err = Nil THEN nctr + 1 ELSE nctr
                          /\ api' = ApiCall("NewContainer", mref, st.err)
    /\ UNCHANGED <<hvars, rvars, llbCaps, peer, snd, env, caps, mctxDone, mu, pids, mb, pumpErr, nprod,
                   streamFin, sent, rel, proc, panicked>>

\* the pump goroutine returns err, for the reason why: m.eg records err and,
\* when it is not nil, cancels m.ctx
PumpReturns(err, why) ==
    /\ pump' = [pump EXCEPT !.pc = "ended", !.msg = NoMsg, !.end = why]
    /\ pumpErr' = err
    /\ streamFin' = TRUE
    /\ mctxDone' = (mctxDone \/ err # Nil)

\* a variant of the pump whose first test of err takes every error for the
\* end of the stream
PumpRecvAllBenign ==
    /\ ~panicked
    /\ pump.pc = "recv"
    /\ \/ /\ nprod < env.len
          /\ \E m \in env.menu :
                /\ nprod' = nprod + 1
                /\ pump' = [pump EXCEPT !.pc = "lookup",
                                        !.msg = ExecMessage(nprod + 1, m.pid, m.pl)]
          /\ UNCHANGED <<pumpErr, streamFin, mctxDone>>
       \/ /\ PumpReturns(Nil, "eof")            \* io.EOF
          /\ UNCHANGED nprod
       \/ /\ mctxDone                           \* codes.Canceled
          /\ PumpReturns(Nil, "canceled")
          /\ UNCHANGED nprod
       \/ /\ PumpReturns(Nil, "error")          \* any other error
          /\ UNCHANGED nprod
    /\ UNCHANGED <<ovars, env, caps, rpcs, nctr, ncalls, stream, startOnce, startErr,
                   mu, pids, mb, sent, rel, proc, panicked>>

\* the inbound pump: msg, err := m.stream.Recv() and the two tests of err
PumpRecv ==
    /\ ~panicked
    /\ pump.pc = "recv"
    /\ \/ /\ nprod < env.len
          /\ \E m \in env.menu :
                /\ nprod' = nprod + 1
                /\ pump' = [pump EXCEPT !.pc = "lookup",
                                        !.msg = ExecMessage(nprod + 1, m.pid, m.pl)]
          /\ UNCHANGED <<pumpErr, streamFin, mctxDone>>
       \/ /\ PumpReturns(Nil, "eof")            \* io.EOF
          /\ UNCHANGED nprod
       \/ /\ mctxDone                           \* codes.Canceled
          /\ PumpReturns(Nil, "canceled")
          /\ UNCHANGED nprod
       \/ /\ PumpReturns("RecvErr", "error")    \* any other error
          /\ UNCHANGED nprod
    /\ UNCHANGED <<ovars, env, caps, rpcs, nctr, ncalls, stream, startOnce, startErr,
                   mu, pids, mb, sent, rel, proc, panicked>>

\* a variant of the pump that returns when a process id has no mailbox
PumpDropStops == [pump EXCEPT !.pc = "ended", !.msg = NoMsg]

\* what the pump does with a message whose process id has no mailbox: log
\* and continue with the next stream message
PumpDrop == [pump EXCEPT !.pc = "recv", !.msg = NoMsg, !.drops = @ + 1]

\* the inbound pump: the lookup of msg.ProcessID in m.pids under m.mu
PumpLookup ==
    /\ ~panicked
    /\ pump.pc = "lookup"
    /\ mu = Nil
    /\ pump' = IF pump.msg.pid \in pids
               THEN [pump EXCEPT !.pc = "send"]
               ELSE PumpDrop
    /\ UNCHANGED <<ovars, env, caps, rpcs, nctr, ncalls, stream, startOnce, startErr,
                   mctxDone, mu, pids, mb, pumpErr, nprod, streamFin, sent, rel,
                   proc, panicked>>

\* the effect on the pump of one case of the select in msgs.Send(m.ctx, msg)
PumpSendCase(p, case) ==
    CASE case = "ctx" ->
           /\ pump' = [pump EXCEPT !.pc = "recv", !.msg = NoMsg]
           /\ UNCHANGED <<mb, proc, panicked>>
      [] case = "done" ->
           /\ mb' = [mb EXCEPT ![p] = CloseMsgsOnce(@)]
           /\ pump' = [pump EXCEPT !.pc = "recv", !.msg = NoMsg]
           /\ UNCHANGED <<proc, panicked>>
      [] case = "panic" ->
           /\ panicked' = TRUE
           /\ UNCHANGED <<mb, proc, pump>>
      [] OTHER ->
           /\ proc' = [proc EXCEPT ![p] = Deliver(@, pump.msg, TRUE)]
           /\ pump' = [pump EXCEPT !.pc = "recv", !.msg = NoMsg]
           /\ UNCHANGED <<mb, panicked>>

\* the inbound pump: msgs.Send(m.ctx, msg), the select of
\* procMessageForwarder.Send
PumpSend ==
    /\ pump.pc = "send"
    /\ ~panicked
    /\ LET p == pump.msg.pid
           cases == SendCases(mb[p], mctxDone, ReaderParked(p))
       IN IF cases = {}
          THEN /\ pump' = [pump EXCEPT !.pc = "parked"]
               /\ UNCHANGED <<mb, proc, panicked>>
          ELSE \E case \in cases : PumpSendCase(p, case)
    /\ UNCHANGED <<ovars, env, caps, rpcs, nctr, ncalls, stream, startOnce, startErr,
                   mctxDone, mu, pids, pumpErr, nprod, streamFin, sent, rel>>

\* the pump's Send, woken by close(b.done), runs the body of the done case
PumpSendWoke ==
    /\ pump.pc = "wokeDone"
    /\ ~panicked
    /\ PumpSendCase(pump.msg.pid, "done")
    /\ UNCHANGED <<ovars, env, caps, rpcs, nctr, ncalls, stream, startOnce, startErr,
                   mctxDone, mu, pids, pumpErr, nprod, streamFin, sent, rel>>

\* messageForwarder.Release, first statement: m.cancel(...) wakes the pump
\* when it is parked in a mailbox Send
ReleaseCancel ==
    /\ ~panicked
    /\ run.pc \in {"none", "release"}
    /\ rel.pc = "idle"
    /\ mctxDone' = TRUE
    /\ pump' = IF pump.pc = "parked" THEN [pump EXCEPT !.pc = "recv", !.msg = NoMsg]
               ELSE pump
    /\ rel' = [rel EXCEPT !.pc = "wait", !.parked = (pump.pc = "parked")]
    /\ UNCHANGED <<ovars, env, caps, rpcs, nctr, ncalls, stream, startOnce, startErr,
                   mu, pids, mb, pumpErr, nprod, streamFin, sent, proc, panicked>>

\* a variant of Release that returns without waiting for the pump
ReleaseNoWait ==
    /\ ~panicked
    /\ rel.pc = "wait"
    /\ rel' = [rel EXCEPT !.pc = "ret", !.err = pumpErr, !.nsent = Len(sent),
                          !.ngot = [p \in Procs |-> Len(proc[p].got)]]
    /\ UNCHANGED <<ovars, env, caps, rpcs, nctr, ncalls, stream, startOnce, startErr,
                   mctxDone, mu, pids, mb, pump, pumpErr, nprod, streamFin, sent,
                   proc, panicked>>

\* messageForwarder.Release, second statement: return m.eg.Wait()
ReleaseWait ==
    /\ ~panicked
    /\ rel.pc = "wait"
    /\ pump.pc \in {"off", "ended"}
    /\ rel' = [rel EXCEPT !.pc = "ret", !.err = pumpErr, !.nsent = Len(sent),
                          !.ngot = [p \in Procs |-> Len(proc[p].got)]]
    /\ UNCHANGED <<ovars, env, caps, rpcs, nctr, ncalls, stream, startOnce, startErr,
                   mctxDone, mu, pids, mb, pump, pumpErr, nprod, streamFin, sent,
                   proc, panicked>>

\* ------------------------------------------------------------------------
\* Concurrent callers of NewContainer: messageForwarder.Start step by step
\* ------------------------------------------------------------------------
\* the goroutines that call NewContainer, and the calls each makes
StartCallers == {"n1", "n2"}
MaxStarts == 2

\* pc: "idle", "check" (at the test of m.startErr), "once" (at
\* m.startOnce.Do), "inOnce" (inside the function of the once), "defer" (at
\* Start's deferred function); err: Start's named result; reached: the last
\* call reached Start; ret: what Start returned; after: the error a Start
\* call had returned before this call began; tried: this call called
\* ExecProcess; late: this call returned nil after a Start call had
\* returned an error.
StartCallerInit == [pc |-> "idle", n |-> 0, err |-> Nil, reached |-> FALSE,
                    ret |-> Nil, after |-> Nil, tried |-> FALSE, late |-> FALSE]

\* opened: calls of client.ExecProcess; spawned: pump goroutines started;
\* failed: the error of the first Start call that returned one
StartsInit == [th |-> [t \in StartCallers |-> StartCallerInit],
               opened |-> 0, spawned |-> 0, failed |-> Nil]

\* a variant of the once that never latches
OnceNeverDone == FALSE

\* m.startOnce has completed: Do calls its function no more
OnceDone == startOnce

\* a caller is inside the function of m.startOnce.Do; the others block in Do
OnceBusy == \E t \in StartCallers : starts.th[t].pc = "inOnce"

\* NewContainer up to its call of c.execMsgs.Start
NcCall(t) ==
    /\ ~panicked
    /\ starts.th[t].pc = "idle"
    /\ starts.th[t].n < MaxStarts
    /\ \E mref \in MountRefs, rpcOk \in BOOLEAN :
          LET th == [starts.th[t] EXCEPT !.n = @ + 1, !.err = Nil, !.reached = FALSE,
                                         !.ret = Nil, !.after = Nil, !.tried = FALSE,
                                         !.late = FALSE]
          IN IF ~Supports(CapGatewayExec)
             THEN /\ starts' = [starts EXCEPT !.th[t] =
                                   [th EXCEPT !.ret = CapError(CapGatewayExec)]]
                  /\ UNCHANGED rpcs
             ELSE IF mref.type \notin {"nil", "reference"}
             THEN /\ starts' = [starts EXCEPT !.th[t] =
                                   [th EXCEPT !.ret = "unexpected type for reference"]]
                  /\ UNCHANGED rpcs
             ELSE /\ rpcs' = Append(rpcs, [rpc |-> "NewContainer",
                                           mount |-> MountResultID(mref)])
                  /\ starts' = [starts EXCEPT !.th[t] =
                                   IF rpcOk
                                   THEN [th EXCEPT !.pc = "check", !.reached = TRUE,
                                                   !.after = starts.failed]
                                   ELSE [th EXCEPT !.ret = "NewContainerRpcErr"]]
    /\ UNCHANGED <<hvars, rvars, api, llbCaps, peer, snd, env, caps, nctr, ncalls, mvars, proc,
                   panicked>>

\* Start: if m.startErr != nil { return m.startErr }
StartCheckErr(t) ==
    /\ ~panicked
    /\ starts.th[t].pc = "check"
    /\ starts' = [starts EXCEPT !.th[t] =
                     IF startErr # Nil
                     THEN [@ EXCEPT !.pc = "defer", !.err = startErr]
                     ELSE [@ EXCEPT !.pc = "once"]]
    /\ UNCHANGED <<hvars, rvars, api, llbCaps, peer, snd, env, caps, rpcs, nctr, ncalls, mvars, proc,
                   panicked>>

\* Start: m.startOnce.Do: the first caller enters the function and calls
\* client.ExecProcess; a caller that finds the once completed returns from
\* Do at once, with its own err still nil
StartOnceDo(t) ==
    /\ ~panicked
    /\ starts.th[t].pc = "once"
    /\ ~OnceBusy
    /\ starts' = IF OnceDone
                 THEN [starts EXCEPT !.th[t] = [@ EXCEPT !.pc = "defer"]]
                 ELSE [starts EXCEPT !.th[t] = [@ EXCEPT !.pc = "inOnce", !.tried = TRUE],
                                     !.opened = @ + 1]
    /\ UNCHANGED <<hvars, rvars, api, llbCaps, peer, snd, env, caps, rpcs, nctr, ncalls, mvars, proc,
                   panicked>>

\* Start: the function of the once: ExecProcess returns; on success the pump
\* goroutine is started
StartOnceBody(t) ==
    /\ ~panicked
    /\ starts.th[t].pc = "inOnce"
    /\ startOnce' = TRUE
    /\ \E openOk \in BOOLEAN :
          IF openOk /\ ~mctxDone
          THEN /\ stream' = "open"
               /\ pump' = [pump EXCEPT !.pc = "recv"]
               /\ starts' = [starts EXCEPT !.th[t] = [@ EXCEPT !.pc = "defer"],
                                           !.spawned = @ + 1]
          ELSE /\ starts' = [starts EXCEPT !.th[t] =
                                [@ EXCEPT !.pc = "defer", !.err = "ExecProcessErr"]]
               /\ UNCHANGED <<stream, pump>>
    /\ UNCHANGED <<hvars, rvars, api, llbCaps, peer, snd, env, caps, rpcs, nctr, ncalls, startErr,
                   mctxDone, mu, pids, mb, pumpErr, nprod, streamFin, sent, rel, proc,
                   panicked>>

\* Start's deferred function and return, and the return of NewContainer
StartDefer(t) ==
    /\ ~panicked
    /\ starts.th[t].pc = "defer"
    /\ LET err == starts.th[t].err
       IN /\ startErr' = IF err # Nil THEN err ELSE startErr
          /\ nctr' = IF err = Nil THEN nctr + 1 ELSE nctr
          /\ starts' = [starts EXCEPT
                          !.th[t] = [@ EXCEPT !.pc = "idle", !.ret = err,
                                              !.late = (err = Nil /\ starts.failed # Nil)],
                          !.failed = IF @ = Nil THEN err ELSE @]
    /\ UNCHANGED <<hvars, rvars, api, llbCaps, peer, snd, env, caps, rpcs, ncalls, stream, startOnce,
                   mctxDone, mu, pids, mb, pump, pumpErr, nprod, streamFin, sent, rel, proc,
                   panicked>>

\* ------------------------------------------------------------------------
\* Concurrent callers of messageForwarder.Send, step by step
\* ------------------------------------------------------------------------
\* the goroutines that call Send (a container.Start with its Init message, a
\* stdin copier, a Resize, a Signal), and the calls each makes
SendCallers == {"w1", "w2"}
MaxSends == 1
\* w1 is a container.Start followed by its stdin copier, w2 the caller of
\* Resize and Signal
SendKind(t, n) ==
    IF t = "w1" THEN (IF n = 1 THEN "Init" ELSE "File0")
    ELSE (IF n = 1 THEN "Resize" ELSE "Signal")

\* pc: "idle", "want" (at m.mu.Lock), "locked" (after the lookup in m.pids),
\* "inStream" (inside m.stream.Send), "unlock" (at the deferred Unlock);
\* found: the lookup's ok; err: what Send returns
SendCallerInit == [pc |-> "idle", n |-> 0, pid |-> NoProc, k |-> "none",
                   found |-> FALSE, err |-> Nil]

\* the goroutines inside m.stream.Send
StreamWriters == {t \in SendCallers : snd[t].pc = "inStream"}

\* Send is called with a message of kind k for process p
SendCall(t) ==
    /\ ~panicked
    /\ stream # Nil
    /\ snd[t].pc = "idle"
    /\ snd[t].n < MaxSends
    /\ \E p \in Procs :
          snd' = [snd EXCEPT ![t] = [@ EXCEPT !.pc = "want", !.n = @ + 1, !.pid = p,
                                              !.k = SendKind(t, snd[t].n + 1),
                                              !.found = FALSE, !.err = Nil]]
    /\ UNCHANGED <<hvars, rvars, starts, api, llbCaps, peer, evars, panicked>>

\* a variant of Send that looks the process up without taking the mutex
SendLockFree(t) ==
    /\ ~panicked
    /\ snd[t].pc = "want"
    /\ snd' = [snd EXCEPT ![t] = [@ EXCEPT !.pc = "locked",
                                            !.found = (snd[t].pid \in pids)]]
    /\ UNCHANGED <<hvars, rvars, starts, api, llbCaps, peer, evars, panicked>>

\* Send: m.mu.Lock(); _, ok := m.pids[msg.ProcessID]
SendLock(t) ==
    /\ ~panicked
    /\ snd[t].pc = "want"
    /\ mu = Nil
    /\ mu' = t
    /\ snd' = [snd EXCEPT ![t] = [@ EXCEPT !.pc = "locked",
                                            !.found = (snd[t].pid \in pids)]]
    /\ UNCHANGED <<hvars, rvars, starts, api, llbCaps, peer, env, caps, rpcs, nctr,
                   ncalls, stream, startOnce, startErr, mctxDone, pids, mb, pump,
                   pumpErr, nprod, streamFin, sent, rel, proc, panicked>>

\* Send: if !ok { return errors.Errorf(...) }, else m.stream.Send is entered
SendStream(t) ==
    /\ ~panicked
    /\ snd[t].pc = "locked"
    /\ snd' = [snd EXCEPT ![t] = IF @.found THEN [@ EXCEPT !.pc = "inStream"]
                                 ELSE [@ EXCEPT !.pc = "unlock", !.err = "processEnded"]]
    /\ UNCHANGED <<hvars, rvars, starts, api, llbCaps, peer, evars, panicked>>

\* Send: m.stream.Send returns
SendStreamEnd(t) ==
    /\ ~panicked
    /\ snd[t].pc = "inStream"
    /\ \E ok \in StreamSendOutcomes :
          /\ sent' = Append(sent, [pid |-> snd[t].pid, k |-> snd[t].k, d |-> {},
                                   ok |-> ok])
          /\ snd' = [snd EXCEPT ![t] = [@ EXCEPT !.pc = "unlock",
                                                  !.err = IF ok THEN Nil
                                                          ELSE "streamSendErr"]]
    /\ UNCHANGED <<hvars, rvars, starts, api, llbCaps, peer, env, caps, rpcs, nctr,
                   ncalls, stream, startOnce, startErr, mctxDone, mu, pids, mb, pump,
                   pumpErr, nprod, streamFin, rel, proc, panicked>>

\* Send: the deferred m.mu.Unlock(), and the return
SendUnlock(t) ==
    /\ ~panicked
    /\ snd[t].pc = "unlock"
    /\ mu' = IF mu = t THEN Nil ELSE mu
    /\ snd' = [snd EXCEPT ![t] = [@ EXCEPT !.pc = "idle"]]
    /\ UNCHANGED <<hvars, rvars, starts, api, llbCaps, peer, env, caps, rpcs, nctr,
                   ncalls, stream, startOnce, startErr, mctxDone, pids, mb, pump,
                   pumpErr, nprod, streamFin, sent, rel, proc, panicked>>

\* ------------------------------------------------------------------------
\* Container processes: container.Start, its three tasks, Wait
\* ------------------------------------------------------------------------
\* u: the caller's position ("new", "init", "recvStarted", "parkedStarted",
\*    "checkStarted", "startErr", "running", "wait", "dereg", "closeRecv",
\*    "closeSend", "waited"); loop, closer, cop: the tasks' positions;
\* rmsg, rok: what the last Recv returned; got: every message Recv returned
\* on the process's mailbox; once, nclose: closeDoneOnce and the number of
\* close(done) executed; end: why the event loop returned; cwait: the
\* caller's context was cancelled while the event loop was parked in Recv;
\* wr: the calls of Write on the caller's writers, each with the writer and
\* the data, which is named by the sequence number of its message.
NoReq == [stdin |-> "none", stdout |-> FALSE, stderr |-> FALSE, secret |-> FALSE]
ProcInit == [u |-> "new", req |-> NoReq, ctx |-> FALSE, loop |-> "off",
             closer |-> "off", cop |-> "off", left |-> 0, rdClosed |-> FALSE,
             once |-> FALSE, nclose |-> 0, exitError |-> Nil, egErr |-> Nil,
             ret |-> Nil, rmsg |-> NoMsg, rok |-> FALSE, got |-> <<>>,
             end |-> Nil, sendFail |-> FALSE, nctl |-> 0, ctlErr |-> Nil,
             ctlSent |-> FALSE, cwait |-> FALSE, wr |-> <<>>]

\* grpcerrors.FromGRPC(status.ErrorProto(&spb.Status{Code: exit.Error.Code, ...})):
\* a status with code OK converts to a nil error
StatusError(st) == IF st = StatusOK THEN Nil ELSE "status{" \o ToString(st) \o "}"

\* &pb.ExitError{ExitCode: code, Err: inner}
ExitError(code, inner) == "ExitError{" \o ToString(code) \o "," \o inner \o "}"

\* the event loop's exitError after an Exit message
ExitErrorAfter(old, exit) ==
    IF exit.code = 0 THEN old
    ELSE IF exit.code # UnknownExitStatus
    THEN ExitError(exit.code, StatusError(exit.st))
    ELSE StatusError(exit.st)

\* a variant of closeDoneOnce.Do that closes done without the latch
CloseDoneUnlatched(pr) == [pr EXCEPT !.once = TRUE, !.nclose = @ + 1]

\* closeDoneOnce.Do(func() { close(done) })
CloseDoneOnce(pr) ==
    IF pr.once THEN pr ELSE [pr EXCEPT !.once = TRUE, !.nclose = @ + 1]

\* a task of the process's errgroup returns err: the group keeps the first
\* non-nil error and cancels its context, which completes an event loop
\* parked in Recv with (nil, true)
TaskReturns(pr, err) ==
    IF err = Nil \/ pr.egErr # Nil THEN pr
    ELSE LET q == [pr EXCEPT !.egErr = err]
         IN IF q.loop = "parked" THEN Deliver(q, NoMsg, TRUE) ELSE q

\* messageForwarder.Send for process p, given the outcome of m.stream.Send:
\* the error it returns
MuxSendErr(p, ok) ==
    IF p \notin pids THEN "processEnded"
    ELSE IF ok THEN Nil ELSE "streamSendErr"

\* messageForwarder.Send: the call of m.stream.Send it makes, if any
MuxSent(p, kind, d, ok) ==
    IF p \in pids THEN Append(sent, [pid |-> p, k |-> kind, d |-> d, ok |-> ok])
    ELSE sent

\* init.Fds: the fds the Init message declares for a StartRequest
InitFds(r) ==
    (IF r.stdin # "none" THEN {0} ELSE {})
        \cup (IF r.stdout THEN {1} ELSE {})
        \cup (IF r.stderr THEN {2} ELSE {})

\* container.Start: Register and the secret-env capability check
StartRegister(p) ==
    /\ ~panicked
    /\ p \in env.users
    /\ nctr > 0
    /\ proc[p].u = "new"
    /\ mu = Nil
    /\ pids' = pids \cup {p}
    /\ mb' = [mb EXCEPT ![p] = NewMailbox]
    /\ \E r \in env.reqs :
          proc' = [proc EXCEPT ![p] =
                     IF r.secret /\ ~Supports(CapGatewayExecSecretEnv)
                     THEN [@ EXCEPT !.u = "startErr", !.req = r,
                                    !.ret = CapError(CapGatewayExecSecretEnv)]
                     ELSE [@ EXCEPT !.u = "init", !.req = r,
                                    !.left = IF r.stdin = "none" THEN 0 ELSE env.chunks]]
    /\ UNCHANGED <<ovars, env, caps, rpcs, nctr, ncalls, stream, startOnce, startErr,
                   mctxDone, mu, pump, pumpErr, nprod, streamFin, sent, rel, panicked>>

\* container.Start: ctr.execMsgs.Send of the Init message
StartInit(p) ==
    /\ ~panicked
    /\ proc[p].u = "init"
    /\ mu = Nil
    /\ \E ok \in StreamSendOutcomes :
          /\ sent' = MuxSent(p, "Init", InitFds(proc[p].req), ok)
          /\ proc' = [proc EXCEPT ![p] =
                        IF MuxSendErr(p, ok) = Nil
                        THEN [@ EXCEPT !.u = "recvStarted"]
                        ELSE [@ EXCEPT !.u = "startErr", !.ret = MuxSendErr(p, ok)]]
    /\ UNCHANGED <<ovars, env, caps, rpcs, nctr, ncalls, stream, startOnce, startErr,
                   mctxDone, mu, pids, mb, pump, pumpErr, nprod, streamFin, rel,
                   panicked>>

\* the select of procMessageForwarder.Recv entered by a reader of p's
\* mailbox whose context is cancelled iff ctxDone; parkedPc and gotPc are
\* the reader's positions when it parks and when Recv has returned
ReaderRecv(p, ctxDone, field, parkedPc, gotPc) ==
    LET cases == RecvCases(mb[p], ctxDone, PumpParkedOn(p))
    IN IF cases = {}
       THEN /\ proc' = [proc EXCEPT ![p] = [@ EXCEPT ![field] = parkedPc]]
            /\ UNCHANGED pump
       ELSE \E case \in cases :
               LET res == RecvResult(case, pump.msg, NoMsg)
               IN /\ proc' = [proc EXCEPT ![p] =
                                [@ EXCEPT ![field] = gotPc, !.rmsg = res.m,
                                          !.rok = res.ok,
                                          !.got = IF res.m = NoMsg THEN @
                                                  ELSE Append(@, res.m)]]
                  /\ pump' = IF case = "msg"
                             THEN [pump EXCEPT !.pc = "recv", !.msg = NoMsg]
                             ELSE pump

\* container.Start: msg, _ := msgs.Recv(ctx)
StartRecv(p) ==
    /\ ~panicked
    /\ proc[p].u = "recvStarted"
    /\ ReaderRecv(p, proc[p].ctx, "u", "parkedStarted", "checkStarted")
    /\ UNCHANGED <<ovars, env, caps, rpcs, nctr, ncalls, stream, startOnce, startErr,
                   mctxDone, mu, pids, mb, pumpErr, nprod, streamFin, sent, rel,
                   panicked>>

\* a variant of the test of the first message that accepts any message
StartCheckAny(p) ==
    /\ ~panicked
    /\ proc[p].u = "checkStarted"
    /\ LET pr == proc[p]
       IN proc' = [proc EXCEPT ![p] =
                     IF pr.rmsg = NoMsg
                     THEN [pr EXCEPT !.u = "startErr", !.ret = "noStartedMessage"]
                     ELSE [pr EXCEPT !.u = "running", !.closer = "wait", !.loop = "sel",
                                     !.cop = IF pr.req.stdin = "none" THEN "off"
                                             ELSE "read"]]
    /\ UNCHANGED <<ovars, env, caps, rpcs, nctr, ncalls, mvars, panicked>>

\* container.Start: the test of the first message and the launch of the
\* tasks (done closer, stdin copier, event loop)
StartCheck(p) ==
    /\ ~panicked
    /\ proc[p].u = "checkStarted"
    /\ LET pr == proc[p]
       IN proc' = [proc EXCEPT ![p] =
                     IF pr.rmsg = NoMsg
                     THEN [pr EXCEPT !.u = "startErr", !.ret = "noStartedMessage"]
                     ELSE IF pr.rmsg.pl.k # "Started"
                     THEN [pr EXCEPT !.u = "startErr", !.ret = "expectingStarted"]
                     ELSE [pr EXCEPT !.u = "running", !.closer = "wait", !.loop = "sel",
                                     !.cop = IF pr.req.stdin = "none" THEN "off"
                                             ELSE "read"]]
    /\ UNCHANGED <<ovars, env, caps, rpcs, nctr, ncalls, mvars, panicked>>

\* the caller's context is cancelled: a Recv parked on it, or on the group
\* context derived from it, returns (nil, true)
CtxCancel(p) ==
    /\ ~panicked
    /\ proc[p].u \notin {"new", "startErr", "waited"}
    /\ ~proc[p].ctx
    /\ proc' = [proc EXCEPT ![p] =
                  Deliver([@ EXCEPT !.ctx = TRUE, !.cwait = (proc[p].loop = "parked")],
                          NoMsg, TRUE)]
    /\ UNCHANGED <<ovars, env, caps, rpcs, nctr, ncalls, mvars, panicked>>

\* event loop: msg, ok := msgs.Recv(ctx)
LoopRecv(p) ==
    /\ ~panicked
    /\ proc[p].loop = "sel"
    /\ ReaderRecv(p, GroupCtxDone(proc[p]), "loop", "parked", "got")
    /\ UNCHANGED <<ovars, env, caps, rpcs, nctr, ncalls, stream, startOnce, startErr,
                   mctxDone, mu, pids, mb, pumpErr, nprod, streamFin, sent, rel,
                   panicked>>

\* the event loop returns err for the given reason
LoopReturns(pr, err, why) ==
    TaskReturns([pr EXCEPT !.loop = "ended", !.end = why], err)

\* context.Cause(ctx) of the group context
GroupCtxCause(pr) ==
    IF pr.egErr # Nil THEN pr.egErr
    ELSE IF pr.ctx THEN "contextCanceled" ELSE Nil

\* a variant of the switch on file.Fd that routes fd 2 to req.Stdout
OutWriterOne(pr, fd) ==
    CASE fd = 1 -> IF pr.req.stdout THEN "stdout" ELSE Nil
      [] fd = 2 -> IF pr.req.stdout THEN "stdout" ELSE Nil
      [] OTHER -> Nil

\* the switch on file.Fd: the writer an output File message is routed to,
\* nil when the request has none for it
OutWriter(pr, fd) ==
    CASE fd = 1 -> IF pr.req.stdout THEN "stdout" ELSE Nil
      [] fd = 2 -> IF pr.req.stderr THEN "stderr" ELSE Nil
      [] OTHER -> Nil

\* the writer an output File message is routed to is present
HasWriter(pr, fd) == OutWriter(pr, fd) # Nil

\* event loop: the body of one iteration after Recv returned (rmsg, rok);
\* wrOk is the outcome of out.Write
LoopBody(pr, wrOk) ==
    IF ~pr.rok THEN LoopReturns(pr, pr.exitError, "closed")
    ELSE IF pr.rmsg = NoMsg
    THEN LoopReturns(CloseDoneOnce(pr), GroupCtxCause(pr), "ctx")
    ELSE LET pl == pr.rmsg.pl
         IN CASE pl.k = "File" ->
                   IF ~HasWriter(pr, pl.fd)
                   THEN LoopReturns(pr, "missingWriter", "missingWriter")
                   ELSE IF pl.n = 0 THEN [pr EXCEPT !.loop = "sel"]
                   ELSE LET w == [pr EXCEPT !.wr = Append(@, [w |-> OutWriter(pr, pl.fd),
                                                              seq |-> pr.rmsg.seq])]
                        IN IF wrOk THEN [w EXCEPT !.loop = "sel"]
                           ELSE LoopReturns(w, "writeErr", "writeErr")
              [] pl.k = "Exit" ->
                   [CloseDoneOnce(pr) EXCEPT !.loop = "sel",
                                             !.exitError = ExitErrorAfter(@, pl)]
              [] pl.k = "Done" -> LoopReturns(pr, pr.exitError, "done")
              [] OTHER -> LoopReturns(pr, "unexpectedMessage", "unexpected")

\* event loop: dispatch of what Recv returned
LoopDispatch(p) ==
    /\ ~panicked
    /\ proc[p].loop = "got"
    /\ \E wrOk \in BOOLEAN : proc' = [proc EXCEPT ![p] = LoopBody(@, wrOk)]
    /\ UNCHANGED <<ovars, env, caps, rpcs, nctr, ncalls, mvars, panicked>>

\* done closer task: <-done, then stdinReader.Close() when there is a pipe
DoneCloser(p) ==
    /\ ~panicked
    /\ proc[p].closer = "wait"
    /\ proc[p].nclose > 0
    /\ proc' = [proc EXCEPT ![p] = [@ EXCEPT !.closer = "ended",
                                            !.rdClosed = (proc[p].req.stdin # "none")]]
    /\ UNCHANGED <<ovars, env, caps, rpcs, nctr, ncalls, mvars, panicked>>

\* stdin copier: io.Copy reads from the pipe: ErrClosedPipe once the reader
\* is closed, else a chunk the caller's stdin yields, else EOF when the
\* caller's stdin ends (a stdin that blocks yields nothing more)
CopRead(p) ==
    /\ ~panicked
    /\ proc[p].cop = "read"
    /\ \/ proc[p].rdClosed
       \/ proc[p].left > 0
       \/ proc[p].req.stdin = "eof"
    /\ proc' = [proc EXCEPT ![p] =
                  IF @.rdClosed THEN [@ EXCEPT !.cop = "eof"]
                  ELSE IF @.left > 0 THEN [@ EXCEPT !.cop = "write", !.left = @ - 1]
                  ELSE [@ EXCEPT !.cop = "eof"]]
    /\ UNCHANGED <<ovars, env, caps, rpcs, nctr, ncalls, mvars, panicked>>

\* a variant of the stdin copier that sends the final File message after
\* any error of io.Copy
CopWriteThenEOF(p) ==
    /\ ~panicked
    /\ proc[p].cop = "write"
    /\ mu = Nil
    /\ \E ok \in StreamSendOutcomes :
          /\ sent' = MuxSent(p, "File0", {env.chunks - proc[p].left}, ok)
          /\ proc' = [proc EXCEPT ![p] =
                        IF MuxSendErr(p, ok) = Nil
                        THEN [@ EXCEPT !.cop = "read"]
                        ELSE [@ EXCEPT !.cop = "eof", !.sendFail = TRUE]]
    /\ UNCHANGED <<ovars, env, caps, rpcs, nctr, ncalls, stream, startOnce, startErr,
                   mctxDone, mu, pids, mb, pump, pumpErr, nprod, streamFin, rel,
                   panicked>>

\* stdin copier: msgWriter.Write sends a File message with fd 0; an error
\* ends io.Copy and the task
CopWrite(p) ==
    /\ ~panicked
    /\ proc[p].cop = "write"
    /\ mu = Nil
    /\ \E ok \in StreamSendOutcomes :
          /\ sent' = MuxSent(p, "File0", {env.chunks - proc[p].left}, ok)
          /\ proc' = [proc EXCEPT ![p] =
                        IF MuxSendErr(p, ok) = Nil
                        THEN [@ EXCEPT !.cop = "read"]
                        ELSE TaskReturns([@ EXCEPT !.cop = "ended", !.sendFail = TRUE],
                                         MuxSendErr(p, ok))]
    /\ UNCHANGED <<ovars, env, caps, rpcs, nctr, ncalls, stream, startOnce, startErr,
                   mctxDone, mu, pids, mb, pump, pumpErr, nprod, streamFin, rel,
                   panicked>>

\* stdin copier: the final File message with fd 0 and EOF
CopEOF(p) ==
    /\ ~panicked
    /\ proc[p].cop = "eof"
    /\ mu = Nil
    /\ \E ok \in StreamSendOutcomes :
          /\ sent' = MuxSent(p, "File0EOF", {}, ok)
          /\ proc' = [proc EXCEPT ![p] =
                        TaskReturns([@ EXCEPT !.cop = "ended",
                                              !.sendFail = (MuxSendErr(p, ok) # Nil)],
                                    MuxSendErr(p, ok))]
    /\ UNCHANGED <<ovars, env, caps, rpcs, nctr, ncalls, stream, startOnce, startErr,
                   mctxDone, mu, pids, mb, pump, pumpErr, nprod, streamFin, rel,
                   panicked>>

\* the positions of the caller that holds the process handle Start returned
HandleStates == {"running", "wait", "dereg", "closeRecv", "closeSend", "waited"}

\* a variant of messageForwarder.Send without the lookup of the process id
ControlSendUnchecked(p, kind) ==
    /\ mu = Nil
    /\ \E ok \in StreamSendOutcomes :
          /\ sent' = Append(sent, [pid |-> p, k |-> kind, d |-> {}, ok |-> ok])
          /\ proc' = [proc EXCEPT ![p] =
                        [@ EXCEPT !.nctl = @ + 1, !.ctlSent = TRUE,
                                  !.ctlErr = IF ok THEN Nil ELSE "streamSendErr"]]

\* Resize and Signal: ctrProc.execMsgs.Send of a message of the given kind,
\* whose error is returned
ControlSend(p, kind) ==
    /\ mu = Nil
    /\ \E ok \in StreamSendOutcomes :
          /\ sent' = MuxSent(p, kind, {}, ok)
          /\ proc' = [proc EXCEPT ![p] =
                        [@ EXCEPT !.nctl = @ + 1, !.ctlSent = (p \in pids),
                                  !.ctlErr = MuxSendErr(p, ok)]]

\* containerProcess.Resize
Resize(p) ==
    /\ ~panicked
    /\ proc[p].u \in HandleStates
    /\ proc[p].nctl < MaxControl
    /\ ControlSend(p, "Resize")
    /\ UNCHANGED <<ovars, env, caps, rpcs, nctr, ncalls, stream, startOnce, startErr,
                   mctxDone, mu, pids, mb, pump, pumpErr, nprod, streamFin, rel,
                   panicked>>

\* containerProcess.Signal: a signal without a name is refused before Send
Signal(p) ==
    /\ ~panicked
    /\ proc[p].u \in HandleStates
    /\ proc[p].nctl < MaxControl
    /\ \/ ControlSend(p, "Signal")
       \/ /\ proc' = [proc EXCEPT ![p] =
                        [@ EXCEPT !.nctl = @ + 1, !.ctlSent = FALSE,
                                  !.ctlErr = "unknown signal"]]
          /\ UNCHANGED sent
    /\ UNCHANGED <<ovars, env, caps, rpcs, nctr, ncalls, stream, startOnce, startErr,
                   mctxDone, mu, pids, mb, pump, pumpErr, nprod, streamFin, rel,
                   panicked>>

\* containerProcess.Wait is called
WaitCall(p) ==
    /\ ~panicked
    /\ proc[p].u = "running"
    /\ proc' = [proc EXCEPT ![p].u = "wait"]
    /\ UNCHANGED <<ovars, env, caps, rpcs, nctr, ncalls, mvars, panicked>>

\* every task of the process's errgroup has returned
TasksEnded(pr) ==
    pr.loop = "ended" /\ pr.closer = "ended" /\ pr.cop \in {"off", "ended"}

\* containerProcess.Wait: ctrProc.eg.Wait() returns the group's first error
WaitJoin(p) ==
    /\ ~panicked
    /\ proc[p].u = "wait"
    /\ TasksEnded(proc[p])
    /\ proc' = [proc EXCEPT ![p] = [@ EXCEPT !.u = "dereg", !.ret = proc[p].egErr]]
    /\ UNCHANGED <<ovars, env, caps, rpcs, nctr, ncalls, mvars, panicked>>

\* messageForwarder.Deregister (deferred by Wait): lock, delete the mailbox
\* from m.pids, and the first statement of Close, close(b.done), which wakes
\* the pump when it is parked in Send on that mailbox
Deregister(p) ==
    /\ ~panicked
    /\ proc[p].u = "dereg"
    /\ mu = Nil
    /\ IF p \notin pids
       THEN /\ proc' = [proc EXCEPT ![p].u = "waited"]
            /\ UNCHANGED <<mu, pids, mb, pump>>
       ELSE /\ mu' = "Deregister"
            /\ pids' = pids \ {p}
            /\ mb' = [mb EXCEPT ![p] = CloseDone(@)]
            /\ pump' = IF PumpParkedOn(p) THEN [pump EXCEPT !.pc = "wokeDone"] ELSE pump
            /\ proc' = [proc EXCEPT ![p].u = "closeRecv"]
    /\ UNCHANGED <<ovars, env, caps, rpcs, nctr, ncalls, stream, startOnce, startErr,
                   mctxDone, pumpErr, nprod, streamFin, sent, rel, panicked>>

\* Close, second statement: b.Recv(context.Background()), result discarded
CloseRecv(p) ==
    /\ ~panicked
    /\ proc[p].u = "closeRecv"
    /\ \E case \in RecvCases(mb[p], FALSE, PumpParkedOn(p)) :
          /\ pump' = IF case = "msg" THEN [pump EXCEPT !.pc = "recv", !.msg = NoMsg]
                     ELSE pump
          /\ proc' = [proc EXCEPT ![p].u = "closeSend"]
    /\ UNCHANGED <<ovars, env, caps, rpcs, nctr, ncalls, stream, startOnce, startErr,
                   mctxDone, mu, pids, mb, pumpErr, nprod, streamFin, sent, rel,
                   panicked>>

\* Close, third statement: b.Send(context.Background(), nil); then
\* Deregister unlocks and Wait returns
CloseSend(p) ==
    /\ ~panicked
    /\ proc[p].u = "closeSend"
    /\ \E case \in SendCases(mb[p], FALSE, FALSE) :
          IF case = "panic"
          THEN /\ panicked' = TRUE
               /\ UNCHANGED <<mb, mu, proc>>
          ELSE /\ mb' = [mb EXCEPT ![p] = CloseMsgsOnce(@)]
               /\ mu' = Nil
               /\ proc' = [proc EXCEPT ![p].u = "waited"]
               /\ UNCHANGED panicked
    /\ UNCHANGED <<ovars, env, caps, rpcs, nctr, ncalls, stream, startOnce, startErr,
                   mctxDone, pids, pump, pumpErr, nprod, streamFin, sent, rel>>

\* ------------------------------------------------------------------------
\* Run driver: grpcClient.Run
\* ------------------------------------------------------------------------

Keys == {"a", "b"}
RefMaps == UNION {[K -> RefVals] : K \in SUBSET Keys}
Metas == {Nil, "md"}
\* an attestation: its optional Ref and, of its other fields, its Path
Attestation(ref, path) == [ref |-> ref, path |-> path]
Attests == {[a |-> <<Attestation(RefOwn, "p1"), Attestation(RefNil, "p2")>>],
            [a |-> <<Attestation(RefOwn, "p1")>>, b |-> <<Attestation(RefOther, "p1")>>]}

\* a client.Result; hasRefs and hasAtts tell a non-nil map from a nil one
Result(ref, hasRefs, refs, md, hasAtts, atts) ==
    [Ref |-> ref, hasRefs |-> hasRefs, Refs |-> refs, Metadata |-> md,
     hasAtts |-> hasAtts, Attestations |-> atts]

\* client.NewResult()
NewResult == Result(RefNil, FALSE, <<>>, Nil, FALSE, <<>>)

\* what the build function may return: (nil, E), (nil, nil), (res, nil) or
\* (res, E); isNil tells a nil *Result
FResults ==
    {Result(r, FALSE, <<>>, md, FALSE, <<>>) : r \in RefVals, md \in Metas}
    \cup {Result(RefNil, TRUE, m, "md", FALSE, <<>>) : m \in RefMaps}
    \cup {Result(RefOwn, FALSE, <<>>, "md", TRUE, a) : a \in Attests}
FOutcomes ==
    {[isNil |-> TRUE, res |-> NewResult, err |-> e] : e \in {Nil, "E"}}
    \cup {[isNil |-> FALSE, res |-> r, err |-> Nil] : r \in FResults}
    \cup {[isNil |-> FALSE, res |-> Result(RefOwn, FALSE, <<>>, "md", FALSE, <<>>),
           err |-> "E"]}

\* convertRef; pb is the *pb.Ref when err is nil
ConvertRef(ref) ==
    IF ref.type = "nil" THEN [err |-> Nil, pb |-> [Id |-> "", Def |-> ""]]
    ELSE IF ref.type # "reference"
    THEN [err |-> "invalid return reference type", pb |-> [Id |-> "", Def |-> ""]]
    ELSE [err |-> Nil, pb |-> [Id |-> ref.id, Def |-> ref.def]]

\* keys of a map whose reference converts
Convertible(m) == {k \in DOMAIN m : ConvertRef(m[k]).err = Nil}

\* pbRes.Result as the export defer builds it from res, and the error of the
\* conversions (nil when every reference converts)
EncodeRefs(res) ==
    IF res.hasRefs
    THEN [err |-> IF Convertible(res.Refs) = DOMAIN res.Refs THEN Nil
                  ELSE "invalid return reference type",
          pb |-> IF Supports(CapProtoRefArray)
                 THEN [kind |-> "Refs",
                       val |-> [k \in Convertible(res.Refs) |-> ConvertRef(res.Refs[k]).pb]]
                 ELSE [kind |-> "RefsDeprecated",
                       val |-> [k \in Convertible(res.Refs) |-> ConvertRef(res.Refs[k]).pb.Id]]]
    ELSE IF ConvertRef(res.Ref).err # Nil
    THEN [err |-> ConvertRef(res.Ref).err, pb |-> [kind |-> "unset"]]
    ELSE [err |-> Nil,
          pb |-> IF Supports(CapProtoRefArray)
                 THEN [kind |-> "Ref", val |-> ConvertRef(res.Ref).pb]
                 ELSE [kind |-> "RefDeprecated", val |-> ConvertRef(res.Ref).pb.Id]]

\* the attestations of one key that convert, in order
RECURSIVE EncodeAtts(_)
EncodeAtts(as) ==
    IF as = <<>> THEN <<>>
    ELSE IF ConvertRef(Head(as).ref).err # Nil THEN EncodeAtts(Tail(as))
    ELSE <<[Ref |-> ConvertRef(Head(as).ref).pb, Path |-> Head(as).path]>>
         \o EncodeAtts(Tail(as))

AttsConvert(atts) ==
    \A k \in DOMAIN atts : \A i \in 1..Len(atts[k]) : ConvertRef(atts[k][i].ref).err = Nil

\* pbRes.Attestations and the error of the conversions
EncodeAttestations(res) ==
    IF ~res.hasAtts THEN [err |-> Nil, pb |-> <<>>]
    ELSE [err |-> IF AttsConvert(res.Attestations) THEN Nil
                  ELSE "invalid return reference type",
          pb |-> [k \in {j \in DOMAIN res.Attestations :
                           EncodeAtts(res.Attestations[j]) # <<>>} |->
                    EncodeAtts(res.Attestations[k])]]

\* the error payload: the status of retError
StatusOf(err) == [Message |-> err]

\* a variant of the export defer that attaches the result whatever retError is
ReturnRequestKeepsResult(resNil, res0, retError) ==
    LET res == IF resNil THEN NewResult ELSE res0
        refs == EncodeRefs(res)
        atts == EncodeAttestations(res)
        encErr == IF atts.err # Nil THEN atts.err ELSE refs.err
        err == IF retError # Nil THEN retError ELSE encErr
    IN [hasResult |-> TRUE,
        Result |-> [Metadata |-> res.Metadata, Result |-> refs.pb,
                    Attestations |-> atts.pb],
        hasError |-> err # Nil,
        Error |-> StatusOf(err),
        retError |-> err]

\* the ReturnRequest the export defer sends when Run is about to return
\* retError with result res (NewResult when res is nil), and retError after
\* the encoding
ReturnRequest(resNil, res0, retError) ==
    LET res == IF resNil THEN NewResult ELSE res0
        refs == EncodeRefs(res)
        atts == EncodeAttestations(res)
        encErr == IF atts.err # Nil THEN atts.err ELSE refs.err
        err == IF retError # Nil THEN retError ELSE encErr
    IN [hasResult |-> err = Nil,
        Result |-> [Metadata |-> res.Metadata, Result |-> refs.pb,
                    Attestations |-> atts.pb],
        hasError |-> err # Nil,
        Error |-> StatusOf(err),
        retError |-> err]

\* a *pb.SolveRequest: of its fields the Definition, Final, ExporterAttr,
\* Evaluate and AllowResultReturn
SolveRequest(def, final, attr, eval, allow) ==
    [Definition |-> def, Final |-> final, ExporterAttr |-> attr, Evaluate |-> eval,
     AllowResultReturn |-> allow]

\* &pb.SolveRequest{Definition: &opspb.Definition{}}
EmptyReq == SolveRequest("empty", FALSE, Nil, FALSE, FALSE)

\* requestForRef when c.requests is reqs; req is the request when err is nil,
\* stored tells that it is the one kept in c.requests
RequestForRef(ref, reqs) ==
    IF ref.type = "nil" THEN [err |-> Nil, req |-> EmptyReq, stored |-> FALSE]
    ELSE IF ref.type # "reference"
    THEN [err |-> "return reference has invalid type", req |-> EmptyReq,
          stored |-> FALSE]
    ELSE IF ref.id = "" THEN [err |-> Nil, req |-> EmptyReq, stored |-> FALSE]
    ELSE IF ref.id \notin DOMAIN reqs
    THEN [err |-> "did not find request for return reference", req |-> EmptyReq,
          stored |-> FALSE]
    ELSE [err |-> Nil, req |-> reqs[ref.id], stored |-> TRUE]

\* json.Marshal of res.Metadata, a map[string][]byte: null for the nil map,
\* else an object of the base64 strings of the values
JsonMarshal(md) == IF md = Nil THEN "null" ELSE "{base64(" \o md \o ")}"

Export == Supports(CapReturnResult)

\* len(res.Refs)
NumRefs(res) == IF res.hasRefs THEN Cardinality(DOMAIN res.Refs) ELSE 0

\* ------------------------------------------------------------------------
\* The client API the build function calls: Solve, Inputs, ReadDir, StatFile
\* ------------------------------------------------------------------------
\* calls of Solve, Inputs, ReadDir and StatFile in one behaviour
MaxApiCalls == 2

\* wire values: a *pb.Ref and a *pb.Attestation
PbRef(id, def) == [Id |-> id, Def |-> def]
PbAtt(id, def, path) == [Ref |-> PbRef(id, def), Path |-> path]

\* a *pb.SolveResponse: the top-level Ref, and when Result is set its
\* Metadata, the variant of its oneof (kind) with the single ref or the ref
\* map, and its Attestations (hasAtts tells a non-nil map); the deprecated
\* variants carry ids only, their Def is empty
SolveResponse(hasResult, ref, md, kind, single, refs, hasAtts, atts) ==
    [hasResult |-> hasResult, Ref |-> ref, Metadata |-> md, kind |-> kind,
     single |-> single, refs |-> refs, hasAtts |-> hasAtts, Attestations |-> atts]

\* the response of a Solve RPC that failed or whose response is discarded
NoResponse == SolveResponse(FALSE, "", Nil, "none", PbRef("", ""), <<>>, FALSE, <<>>)

\* a variant of the wire request that forwards Evaluate whatever the peer
\* supports
WireSolveRequestForwards(creq) ==
    [Definition |-> IF creq.hasDef THEN "def" ELSE Nil, Final |-> FALSE,
     ExporterAttr |-> IF CapReturnResult \in caps THEN Nil ELSE "{}",
     Evaluate |-> creq.Evaluate, AllowResultReturn |-> TRUE]

\* a variant of Solve that keeps no request
RequestsAfterNoStore(req, resp) == requests

\* the responses the daemon may give, in the five encodings
IdMaps == {<<>>, [a |-> "r1"], [a |-> "r1", b |-> "r2"], [a |-> "", b |-> "r1"]}
RespAtts == {<<>>,
             [a |-> <<PbAtt("r1", "d1", "p1"), PbAtt("", "", "p2")>>],
             [a |-> <<PbAtt("r2", "", "p1")>>, b |-> <<>>]}
RespLegacy == {SolveResponse(FALSE, id, Nil, "none", PbRef("", ""), <<>>, FALSE, <<>>) :
                  id \in {"r1", ""}}
RespDeprecated ==
    {SolveResponse(TRUE, "", md, "RefDeprecated", PbRef(id, ""), <<>>, FALSE, <<>>) :
        id \in {"r1", ""}, md \in Metas}
    \cup {SolveResponse(TRUE, "", "md", "RefsDeprecated", PbRef("", ""),
                        [k \in DOMAIN m |-> PbRef(m[k], "")], FALSE, <<>>) : m \in IdMaps}
    \cup {SolveResponse(TRUE, "", "md", "RefDeprecated", PbRef("r1", ""), <<>>, TRUE, a) :
             a \in RespAtts}
RespModern ==
    {SolveResponse(TRUE, "", md, "Ref", r, <<>>, FALSE, <<>>) :
        r \in {PbRef("r1", "d1"), PbRef("", ""), PbRef("", "d1")}, md \in Metas}
    \cup {SolveResponse(TRUE, "", "md", "Refs", PbRef("", ""),
                        [k \in DOMAIN m |-> PbRef(m[k], IF m[k] = "" THEN "" ELSE "d1")],
                        FALSE, <<>>) : m \in IdMaps}
    \cup {SolveResponse(TRUE, "", "md", "Ref", PbRef("r1", "d1"), <<>>, TRUE, a) :
             a \in RespAtts}
Resps == RespLegacy \cup RespDeprecated \cup RespModern

\* the caller's client.SolveRequest: whether it has a Definition, the
\* capability ids its per-node metadata names, and Evaluate
ClientSolveRequest(hasDef, mdCaps, eval) ==
    [hasDef |-> hasDef, mdCaps |-> mdCaps, Evaluate |-> eval]

\* newReference(c, ref), and &reference{id: id, c: c} for an id-only slot
NewReference(pb) == [type |-> "reference", id |-> pb.Id, def |-> pb.Def, c |-> "c"]

\* a variant of the decoding of a slot that keeps a reference for an empty id
DecodeSlotKeepsEmpty(pb) == NewReference(pb)

\* the reference Solve makes of a slot of the result: none for an empty id
DecodeSlot(pb) == IF pb.Id # "" THEN NewReference(pb) ELSE RefNil

\* a variant of the decoding of the attestations of one key that reverses
\* their order
RECURSIVE DecodeAttsReversed(_)
DecodeAttsReversed(as) ==
    IF as = <<>> THEN <<>>
    ELSE DecodeAttsReversed(Tail(as))
         \o <<Attestation(DecodeSlot(Head(as).Ref), Head(as).Path)>>

\* the attestations of one key as Solve adds them, in arrival order
RECURSIVE DecodeAtts(_)
DecodeAtts(as) ==
    IF as = <<>> THEN <<>>
    ELSE <<Attestation(DecodeSlot(Head(as).Ref), Head(as).Path)>>
         \o DecodeAtts(Tail(as))

\* the *client.Result Solve builds from a response
DecodeResult(resp) ==
    IF ~resp.hasResult
    THEN Result(NewReference(PbRef(resp.Ref, "")), FALSE, <<>>, Nil, FALSE, <<>>)
    ELSE LET single == resp.kind \in {"RefDeprecated", "Ref"}
             ismap == resp.kind \in {"RefsDeprecated", "Refs"}
             keys == IF resp.hasAtts
                     THEN {k \in DOMAIN resp.Attestations : resp.Attestations[k] # <<>>}
                     ELSE {}
         IN Result(IF single THEN DecodeSlot(resp.single) ELSE RefNil,
                   ismap /\ DOMAIN resp.refs # {},
                   IF ismap THEN [k \in DOMAIN resp.refs |-> DecodeSlot(resp.refs[k])]
                   ELSE <<>>,
                   resp.Metadata,
                   keys # {},
                   [k \in keys |-> DecodeAtts(resp.Attestations[k])])

\* the number of attestations of a response
NumAtts(resp) ==
    IF ~resp.hasResult \/ ~resp.hasAtts THEN 0
    ELSE Cardinality({<<k, i>> \in (DOMAIN resp.Attestations) \X (1..2) :
                         i <= Len(resp.Attestations[k])})

\* c.requests after Solve received resp for req
RequestsAfter(req, resp) ==
    IF ~resp.hasResult /\ resp.Ref # ""
    THEN [id \in DOMAIN requests \cup {resp.Ref} |->
             IF id = resp.Ref THEN req ELSE requests[id]]
    ELSE requests

\* the non-nil references of a result, as res.EachRef visits them: the
\* single ref, the entries of Refs, the refs of the attestations
RefIdsOf(res) ==
    {<<"ref", "", 0, res.Ref.id>> : x \in IF res.Ref.type = "nil" THEN {} ELSE {1}}
    \cup (IF res.hasRefs
          THEN {<<"refs", k, 0, res.Refs[k].id>> :
                   k \in {j \in DOMAIN res.Refs : res.Refs[j].type # "nil"}}
          ELSE {})
    \cup (IF res.hasAtts
          THEN {<<"att", ki[1], ki[2], res.Attestations[ki[1]][ki[2]].ref.id>> :
                   ki \in {kj \in (DOMAIN res.Attestations) \X (1..2) :
                              /\ kj[2] <= Len(res.Attestations[kj[1]])
                              /\ res.Attestations[kj[1]][kj[2]].ref.type # "nil"}}
          ELSE {})

\* res.EachRef visits the single ref, then the entries of Refs in the order
\* of a map iteration, then the attestations key by key in the order of a map
\* iteration and, under one key, in their order: the orders of a visit of S
VisitRank(x) == CASE x[1] = "ref" -> 1 [] x[1] = "refs" -> 2 [] OTHER -> 3
VisitOrders(S) ==
    {o \in [1..Cardinality(S) -> S] :
        /\ \A i, j \in DOMAIN o : i < j =>
              /\ o[i] # o[j]
              /\ VisitRank(o[i]) <= VisitRank(o[j])
              /\ (o[i][1] = "att" /\ o[i][2] = o[j][2]) => o[i][3] < o[j][3]
        /\ \A i, j, k \in DOMAIN o :
              (i < j /\ j < k /\ o[i][1] = "att" /\ o[i][2] = o[k][2]) => o[j][2] = o[i][2]}

\* the error of the StatFile RPC of the visited reference x when it fails
StatErr(x) == "StatFileRpcErr@" \o x[1] \o x[2] \o ToString(x[3])

\* the StatFile RPCs of the Evaluate fallback for the visit of order o; those
\* of F fail; EachRef calls the function on every reference
StatVisit(o, F) ==
    [i \in 1..Len(o) |-> [rpc |-> "StatFile", ref |-> o[i][4],
                          err |-> IF o[i] \in F THEN StatErr(o[i]) ELSE Nil]]

\* the first error of a sequence of StatFile RPCs, which EachRef returns
RECURSIVE FirstErr(_)
FirstErr(q) ==
    IF q = <<>> THEN Nil
    ELSE IF Head(q).err # Nil THEN Head(q).err ELSE FirstErr(Tail(q))

\* the wire request Solve sends for creq
WireSolveRequest(creq) ==
    SolveRequest(IF creq.hasDef THEN "def" ELSE Nil, FALSE,
                 IF Export THEN Nil ELSE "{}",
                 creq.Evaluate /\ Supports(CapGatewayEvaluateSolve), TRUE)

\* the record of a call of Solve
SolveCall(creq, err, isNil, res, resp, req) ==
    [n |-> api.n + 1, op |-> "Solve", arg |-> creq, err |-> err, isNil |-> isNil,
     res |-> res, resp |-> resp, req |-> req]

\* grpcClient.Solve
Solve ==
    /\ ~panicked
    /\ peer.state = "ok"
    /\ run.pc \in {"none", "inF"}
    /\ api.n < MaxApiCalls
    /\ \E creq \in env.creqs :
          LET missing == IF creq.hasDef THEN creq.mdCaps \ llbCaps ELSE {}
              req == WireSolveRequest(creq)
              noResp == NoResponse
          IN IF missing # {}
             THEN /\ \E cap \in missing :
                        api' = SolveCall(creq, CapError(cap), TRUE, NewResult, noResp, req)
                  /\ UNCHANGED <<rpcs, requests>>
             ELSE \E rpcOk \in BOOLEAN, resp \in env.resps, attOk \in BOOLEAN :
                     LET solve == [rpc |-> "Solve", hasResult |-> FALSE,
                                   hasError |-> FALSE, body |-> req,
                                   resp |-> IF rpcOk THEN resp ELSE noResp]
                         res == DecodeResult(resp)
                         fallback == creq.Evaluate /\ ~Supports(CapGatewayEvaluateSolve)
                     IN IF ~rpcOk
                        THEN /\ rpcs' = Append(rpcs, solve)
                             /\ api' = SolveCall(creq, "SolveRpcErr", TRUE, NewResult,
                                                 noResp, req)
                             /\ UNCHANGED requests
                        ELSE IF NumAtts(resp) > 0 /\ ~attOk
                        THEN /\ rpcs' = Append(rpcs, solve)
                             /\ api' = SolveCall(creq, "AttestationFromPBErr", TRUE,
                                                 NewResult, resp, req)
                             /\ requests' = RequestsAfter(req, resp)
                        ELSE IF ~fallback
                        THEN /\ rpcs' = Append(rpcs, solve)
                             /\ api' = SolveCall(creq, Nil, FALSE, res, resp, req)
                             /\ requests' = RequestsAfter(req, resp)
                        ELSE IF ~Supports(CapStatFile)
                        THEN /\ rpcs' = Append(rpcs, solve)
                             /\ api' = SolveCall(creq,
                                                 IF RefIdsOf(res) = {} THEN Nil
                                                 ELSE CapError(CapStatFile),
                                                 FALSE, res, resp, req)
                             /\ requests' = RequestsAfter(req, resp)
                        ELSE \E o \in VisitOrders(RefIdsOf(res)),
                                F \in SUBSET RefIdsOf(res) :
                                /\ rpcs' = Append(rpcs, solve) \o StatVisit(o, F)
                                /\ api' = SolveCall(creq, FirstErr(StatVisit(o, F)),
                                                    FALSE, res, resp, req)
                                /\ requests' = RequestsAfter(req, resp)
    /\ UNCHANGED <<hvars, run, starts, llbCaps, peer, snd, env, caps, nctr, ncalls, mvars, proc,
                   panicked>>

\* a variant of Inputs without the test of the capability
InputsUngated ==
    /\ ~panicked
    /\ run.pc \in {"none", "inF"}
    /\ api.n < MaxApiCalls
    /\ rpcs' = Append(rpcs, [rpc |-> "Inputs"])
    /\ \E err \in {Nil, "InputsRpcErr", "NewDefinitionOpErr"} :
          api' = ApiCall("Inputs", RefNil, err)
    /\ UNCHANGED <<hvars, rvars, starts, llbCaps, peer, snd, env, caps, nctr, ncalls, mvars, proc,
                   panicked>>

\* grpcClient.Inputs
Inputs ==
    /\ ~panicked
    /\ peer.state = "ok"
    /\ run.pc \in {"none", "inF"}
    /\ api.n < MaxApiCalls
    /\ IF ~Supports(CapFrontendInputs)
       THEN /\ api' = ApiCall("Inputs", RefNil, CapError(CapFrontendInputs))
            /\ UNCHANGED rpcs
       ELSE /\ rpcs' = Append(rpcs, [rpc |-> "Inputs"])
            /\ \E err \in {Nil, "InputsRpcErr", "NewDefinitionOpErr"} :
                  api' = ApiCall("Inputs", RefNil, err)
    /\ UNCHANGED <<hvars, rvars, starts, llbCaps, peer, snd, env, caps, nctr, ncalls, mvars, proc,
                   panicked>>

\* the references the build function reads from: those Solve produced
ReadableRefs == {NewReference(PbRef("r1", ""))}

\* reference.ReadDir
ReadDir ==
    /\ ~panicked
    /\ peer.state = "ok"
    /\ run.pc \in {"none", "inF"}
    /\ api.n < MaxApiCalls
    /\ \E r \in ReadableRefs :
          IF ~Supports(CapReadDir)
          THEN /\ api' = ApiCall("ReadDir", r, CapError(CapReadDir))
               /\ UNCHANGED rpcs
          ELSE /\ rpcs' = Append(rpcs, [rpc |-> "ReadDir", ref |-> r.id])
               /\ \E err \in {Nil, "ReadDirRpcErr"} : api' = ApiCall("ReadDir", r, err)
    /\ UNCHANGED <<hvars, rvars, starts, llbCaps, peer, snd, env, caps, nctr, ncalls, mvars, proc,
                   panicked>>

\* reference.StatFile
StatFile ==
    /\ ~panicked
    /\ peer.state = "ok"
    /\ run.pc \in {"none", "inF"}
    /\ api.n < MaxApiCalls
    /\ \E r \in ReadableRefs :
          IF ~Supports(CapStatFile)
          THEN /\ api' = ApiCall("StatFile", r, CapError(CapStatFile))
               /\ UNCHANGED rpcs
          ELSE \E err \in {Nil, "StatFileRpcErr"} :
                  /\ rpcs' = Append(rpcs, [rpc |-> "StatFile", ref |-> r.id, err |-> err])
                  /\ api' = ApiCall("StatFile", r, err)
    /\ UNCHANGED <<hvars, rvars, starts, llbCaps, peer, snd, env, caps, nctr, ncalls, mvars, proc,
                   panicked>>

\* ------------------------------------------------------------------------
\* Run
\* ------------------------------------------------------------------------
\* Run is called
RunCall ==
    /\ peer.state = "ok"
    /\ run.pc = "start"
    /\ run' = [run EXCEPT !.pc = "inF"]
    /\ UNCHANGED <<hvars, avars, requests, evars, panicked>>

\* a variant of Run's body without the test of ReturnMap
RunBodyUngated(out, reqs, solveOk) ==
    LET r == RequestForRef(out.res.Ref, reqs)
        final == [r.req EXCEPT !.Final = TRUE,
                               !.ExporterAttr = JsonMarshal(out.res.Metadata)]
        none == [retError |-> out.err, solved |-> FALSE, solve |-> EmptyReq,
                 reqs |-> reqs]
    IN IF out.err # Nil THEN none
       ELSE IF out.isNil THEN none
       ELSE IF Export THEN none
       ELSE IF r.err # Nil THEN [none EXCEPT !.retError = "failed to find return ref"]
       ELSE [retError |-> IF solveOk THEN Nil ELSE "failed to solve",
             solved |-> TRUE,
             solve |-> final,
             reqs |-> IF r.stored THEN [reqs EXCEPT ![out.res.Ref.id] = final]
                      ELSE reqs]

\* Run's body from the return of the build function to its return
\* statement: out is what f returned, reqs is c.requests, solveOk the outcome
\* of the final Solve RPC of the legacy mode; the result has retError,
\* whether the final Solve was sent and its request, and c.requests, whose
\* entry the final request is written through
RunBody(out, reqs, solveOk) ==
    LET r == RequestForRef(out.res.Ref, reqs)
        final == [r.req EXCEPT !.Final = TRUE,
                               !.ExporterAttr = JsonMarshal(out.res.Metadata)]
        none == [retError |-> out.err, solved |-> FALSE, solve |-> EmptyReq,
                 reqs |-> reqs]
    IN IF out.err # Nil THEN none
       ELSE IF out.isNil THEN none
       ELSE IF NumRefs(out.res) > 1 /\ ~Supports(CapReturnMap)
       THEN [none EXCEPT !.retError = CapError(CapReturnMap)]
       ELSE IF Export THEN none
       ELSE IF r.err # Nil THEN [none EXCEPT !.retError = "failed to find return ref"]
       ELSE [retError |-> IF solveOk THEN Nil ELSE "failed to solve",
             solved |-> TRUE,
             solve |-> final,
             reqs |-> IF r.stored THEN [reqs EXCEPT ![out.res.Ref.id] = final]
                      ELSE reqs]

\* what the build function may return: any of FOutcomes, and the result its
\* last Solve gave it
FReturnable ==
    (IF env.fAny THEN FOutcomes ELSE {})
    \cup (IF api.op = "Solve" /\ ~api.isNil /\ api.err = Nil
          THEN {[isNil |-> FALSE, res |-> api.res, err |-> Nil]}
          ELSE {})

\* the build function returns and Run's body runs to its return statement
RunFReturns ==
    /\ ~panicked
    /\ run.pc = "inF"
    /\ \E out \in FReturnable, solveOk \in BOOLEAN :
          LET b == RunBody(out, requests, solveOk)
          IN /\ requests' = b.reqs
             /\ run' = [run EXCEPT !.pc = "release", !.resNil = out.isNil,
                                   !.res = out.res, !.err = out.err,
                                   !.ferr = out.err, !.bodyErr = b.retError,
                                   !.retError = b.retError]
             /\ rpcs' = IF b.solved
                        THEN Append(rpcs, [rpc |-> "Solve", hasResult |-> FALSE,
                                           hasError |-> FALSE, body |-> b.solve,
                                           resp |-> NoResponse])
                        ELSE rpcs
    /\ UNCHANGED <<hvars, avars, env, caps, nctr, ncalls, mvars, proc, panicked>>

\* retError after the deferred Release returned err
AfterRelease(retError, err) ==
    IF err # Nil /\ retError # Nil THEN err ELSE retError

\* the deferred function that releases the exec multiplexer, once Release
\* has returned
RunReleaseDefer ==
    /\ ~panicked
    /\ run.pc = "release"
    /\ rel.pc = "ret"
    /\ run' = [run EXCEPT !.err = rel.err,
                          !.retError = AfterRelease(run.retError, rel.err),
                          !.pc = IF Export THEN "return" ELSE "done"]
    /\ UNCHANGED <<hvars, avars, requests, evars, panicked>>

\* a variant of the export defer in which a failed Return RPC always becomes
\* Run's result
AfterReturnMasks(retError, rpcOk) ==
    IF ~rpcOk THEN "ReturnRpcErr" ELSE retError

\* retError after the Return RPC
AfterReturn(retError, rpcOk) ==
    IF ~rpcOk /\ retError = Nil THEN "ReturnRpcErr" ELSE retError

\* the deferred function of the export mode: build the ReturnRequest, send
\* the Return RPC
RunReturnDefer ==
    /\ ~panicked
    /\ run.pc = "return"
    /\ LET req == ReturnRequest(run.resNil, run.res, run.retError)
       IN \E rpcOk \in BOOLEAN :
             /\ rpcs' = Append(rpcs, [rpc |-> "Return", hasResult |-> req.hasResult,
                                      hasError |-> req.hasError,
                                      body |-> [Result |-> req.Result,
                                                Error |-> req.Error]])
             /\ run' = [run EXCEPT !.pc = "done", !.sentErr = req.retError,
                                   !.rpcOk = rpcOk,
                                   !.retError = AfterReturn(req.retError, rpcOk)]
    /\ UNCHANGED <<hvars, avars, requests, env, caps, nctr, ncalls, mvars, proc, panicked>>

\* ------------------------------------------------------------------------
\* Specifications
\* ------------------------------------------------------------------------
AllCaps == {CapGatewayExec, CapGatewayExecSecretEnv, CapReturnResult, CapReturnMap,
            CapProtoRefArray, CapFrontendInputs, CapReadDir, CapStatFile,
            CapGatewayEvaluateSolve}

\* the state after New: nothing started, nothing registered
EInit(e, capSets) ==
    /\ env = e
    /\ caps \in capSets
    /\ rpcs = <<>>
    /\ nctr = 0
    /\ ncalls = 0
    /\ stream = Nil
    /\ startOnce = FALSE
    /\ startErr = Nil
    /\ mctxDone = FALSE
    /\ mu = Nil
    /\ pids = {}
    /\ mb = [p \in Procs |-> NewMailbox]
    /\ pump = [pc |-> "off", msg |-> NoMsg, drops |-> 0, end |-> Nil]
    /\ pumpErr = Nil
    /\ nprod = 0
    /\ streamFin = FALSE
    /\ sent = <<>>
    /\ rel = [pc |-> "idle", err |-> Nil, parked |-> FALSE, nsent |-> 0,
              ngot |-> [p \in Procs |-> 0]]
    /\ proc = [p \in Procs |-> ProcInit]
    /\ panicked = FALSE

RunInit(pc) ==
    /\ run = [pc |-> pc, resNil |-> TRUE, res |-> NewResult, err |-> Nil,
              retError |-> Nil, ferr |-> Nil, bodyErr |-> Nil, sentErr |-> Nil,
              rpcOk |-> TRUE]
    /\ requests = <<>>

\* the API callers before their first call
ApiInit ==
    /\ starts = StartsInit
    /\ snd = [t \in SendCallers |-> SendCallerInit]
    /\ api = [n |-> 0, op |-> "none", arg |-> RefNil, err |-> Nil]

\* the client New returned to a peer that announced the capabilities of the
\* client and one of llbSets
AInit(llbSets) ==
    /\ ApiInit
    /\ llbCaps \in llbSets
    /\ peer = [state |-> "ok", api |-> CapList(FALSE, caps), llb |-> CapList(FALSE, llbCaps)]

\* an environment: the messages the exec stream may carry (menu) and their
\* number (len), the
\* processes that are started (users), their StartRequests (reqs) and the
\* chunks a stdin yields (chunks), the
\* references mounted into containers (mounts), the SolveRequests of the
\* build function (creqs) and the responses to them (resps), and whether the
\* build function returns results of its own making (fAny)
NoEnv == [menu |-> {}, len |-> MaxStream, users |-> {}, reqs |-> {}, chunks |-> MaxStdin,
          mounts |-> {RefNil}, creqs |-> {}, resps |-> {}, fAny |-> TRUE]

\* The mailbox under concurrent Send, Recv and Close callers
MailboxInit == HInit /\ EInit(NoEnv, {AllCaps}) /\ RunInit("none") /\ AInit({LLBCaps})

SpecMailbox == MailboxInit /\ [][HNext]_vars

\* The exec multiplexer with one container process, which may have a stdin;
\* the stream carries messages for the process and for an id that is never
\* registered; Release may be called at any time
ExecMenu ==
    {[pid |-> p, pl |-> pl] :
        p \in {1},
        pl \in {Started, FileMsg(1, 1), ExitMsg(0, StatusOK), ExitMsg(ExitCode, StatusErr),
                ExitMsg(UnknownExitStatus, StatusErr), ExitMsg(UnknownExitStatus, StatusOK),
                DoneMsg}}
    \cup {[pid |-> NoProc, pl |-> DoneMsg]}
ExecReqs == {[stdin |-> "none", stdout |-> TRUE, stderr |-> TRUE, secret |-> FALSE],
             [stdin |-> "eof", stdout |-> TRUE, stderr |-> TRUE, secret |-> FALSE]}
ExecEnv == [NoEnv EXCEPT !.menu = ExecMenu, !.users = {1}, !.reqs = ExecReqs,
                         !.mounts = {RefNil, RefOther}]

ExecNext ==
    \/ NewContainer
    \/ PumpRecv
    \/ PumpLookup
    \/ PumpSend
    \/ PumpSendWoke
    \/ ReleaseCancel
    \/ ReleaseWait
    \/ \E p \in Procs : StartRegister(p)
    \/ \E p \in Procs : StartInit(p)
    \/ \E p \in Procs : StartRecv(p)
    \/ \E p \in Procs : StartCheck(p)
    \/ \E p \in Procs : CtxCancel(p)
    \/ \E p \in Procs : LoopRecv(p)
    \/ \E p \in Procs : LoopDispatch(p)
    \/ \E p \in Procs : DoneCloser(p)
    \/ \E p \in Procs : CopRead(p)
    \/ \E p \in Procs : CopWrite(p)
    \/ \E p \in Procs : CopEOF(p)
    \/ \E p \in Procs : WaitCall(p)
    \/ \E p \in Procs : WaitJoin(p)
    \/ \E p \in Procs : Deregister(p)
    \/ \E p \in Procs : CloseRecv(p)
    \/ \E p \in Procs : CloseSend(p)

ExecInit == HInit /\ EInit(ExecEnv, {AllCaps}) /\ RunInit("none") /\ AInit({LLBCaps})

SpecExec == ExecInit /\ [][ExecNext]_vars

\* The exec multiplexer with every container process started, none with a
\* stdin; Release may be called at any time
MuxMenu == {[pid |-> p, pl |-> pl] : p \in Procs, pl \in {Started, FileMsg(1, 1), DoneMsg}}
MuxReqs == {[stdin |-> "none", stdout |-> TRUE, stderr |-> TRUE, secret |-> FALSE]}
MuxEnv == [NoEnv EXCEPT !.menu = MuxMenu, !.users = Procs, !.reqs = MuxReqs,
                        !.mounts = {RefOwn}]

MuxNext ==
    \/ NewContainer
    \/ PumpRecv
    \/ PumpLookup
    \/ PumpSend
    \/ PumpSendWoke
    \/ ReleaseCancel
    \/ ReleaseWait
    \/ \E p \in Procs : StartRegister(p)
    \/ \E p \in Procs : StartInit(p)
    \/ \E p \in Procs : StartRecv(p)
    \/ \E p \in Procs : StartCheck(p)
    \/ \E p \in Procs : CtxCancel(p)
    \/ \E p \in Procs : LoopRecv(p)
    \/ \E p \in Procs : LoopDispatch(p)
    \/ \E p \in Procs : DoneCloser(p)
    \/ \E p \in Procs : WaitCall(p)
    \/ \E p \in Procs : WaitJoin(p)
    \/ \E p \in Procs : Deregister(p)
    \/ \E p \in Procs : CloseRecv(p)
    \/ \E p \in Procs : CloseSend(p)

MuxInit == HInit /\ EInit(MuxEnv, {AllCaps}) /\ RunInit("none") /\ AInit({LLBCaps})

SpecMux == MuxInit /\ [][MuxNext]_vars

\* One container process whose stream carries up to MaxOrderStream messages
\* in any order, an unrecognized payload included
OrderMenu ==
    {[pid |-> 1, pl |-> pl] :
        pl \in {Started, FileMsg(1, 1), ExitMsg(0, StatusOK), DoneMsg, OtherMsg}}
OrderEnv == [NoEnv EXCEPT !.menu = OrderMenu, !.len = MaxOrderStream, !.users = {1},
                          !.reqs = MuxReqs]

OrderNext ==
    \/ NewContainer
    \/ PumpRecv
    \/ PumpLookup
    \/ PumpSend
    \/ PumpSendWoke
    \/ \E p \in Procs : StartRegister(p)
    \/ \E p \in Procs : StartInit(p)
    \/ \E p \in Procs : StartRecv(p)
    \/ \E p \in Procs : StartCheck(p)
    \/ \E p \in Procs : CtxCancel(p)
    \/ \E p \in Procs : LoopRecv(p)
    \/ \E p \in Procs : LoopDispatch(p)
    \/ \E p \in Procs : DoneCloser(p)
    \/ \E p \in Procs : WaitCall(p)
    \/ \E p \in Procs : WaitJoin(p)
    \/ \E p \in Procs : Deregister(p)
    \/ \E p \in Procs : CloseRecv(p)
    \/ \E p \in Procs : CloseSend(p)

OrderInit == HInit /\ EInit(OrderEnv, {AllCaps}) /\ RunInit("none") /\ AInit({LLBCaps})

SpecOrder == OrderInit /\ [][OrderNext]_vars

\* One container process, with or without stdin, whose caller also calls
\* Resize and Signal at any time, before, during and after Wait
ControlMenu == {[pid |-> 1, pl |-> pl] : pl \in {Started, DoneMsg}}
ControlEnv == [NoEnv EXCEPT !.menu = ControlMenu, !.users = {1}, !.reqs = ExecReqs]

ControlNext ==
    \/ NewContainer
    \/ PumpRecv
    \/ PumpLookup
    \/ PumpSend
    \/ PumpSendWoke
    \/ \E p \in Procs : StartRegister(p)
    \/ \E p \in Procs : StartInit(p)
    \/ \E p \in Procs : StartRecv(p)
    \/ \E p \in Procs : StartCheck(p)
    \/ \E p \in Procs : CtxCancel(p)
    \/ \E p \in Procs : LoopRecv(p)
    \/ \E p \in Procs : LoopDispatch(p)
    \/ \E p \in Procs : DoneCloser(p)
    \/ \E p \in Procs : CopRead(p)
    \/ \E p \in Procs : CopWrite(p)
    \/ \E p \in Procs : CopEOF(p)
    \/ \E p \in Procs : Resize(p)
    \/ \E p \in Procs : Signal(p)
    \/ \E p \in Procs : WaitCall(p)
    \/ \E p \in Procs : WaitJoin(p)
    \/ \E p \in Procs : Deregister(p)
    \/ \E p \in Procs : CloseRecv(p)
    \/ \E p \in Procs : CloseSend(p)

ControlInit == HInit /\ EInit(ControlEnv, {AllCaps}) /\ RunInit("none") /\ AInit({LLBCaps})

SpecControl == ControlInit /\ [][ControlNext]_vars

\* One container process started with or without each output writer; the
\* stream carries File messages for fds 0 to 3, with and without data
OutputMenu ==
    {[pid |-> 1, pl |-> pl] :
        pl \in {Started, FileMsg(0, 1), FileMsg(1, 1), FileMsg(1, 0), FileMsg(2, 1),
                FileMsg(2, 0), FileMsg(3, 1)}}
OutputReqs == {[stdin |-> "none", stdout |-> o, stderr |-> e, secret |-> FALSE] :
                  o \in BOOLEAN, e \in BOOLEAN}
OutputEnv == [NoEnv EXCEPT !.menu = OutputMenu, !.len = MaxOutputStream, !.users = {1},
                           !.reqs = OutputReqs]

OutputNext ==
    \/ NewContainer
    \/ PumpRecv
    \/ PumpLookup
    \/ PumpSend
    \/ \E p \in Procs : StartRegister(p)
    \/ \E p \in Procs : StartInit(p)
    \/ \E p \in Procs : StartRecv(p)
    \/ \E p \in Procs : StartCheck(p)
    \/ \E p \in Procs : LoopRecv(p)
    \/ \E p \in Procs : LoopDispatch(p)

OutputInit == HInit /\ EInit(OutputEnv, {AllCaps}) /\ RunInit("none") /\ AInit({LLBCaps})

SpecOutput == OutputInit /\ [][OutputNext]_vars

\* One container process, with a stdin that ends, with one that never ends
\* or with none, under fair scheduling of the goroutines: the pump, the tasks
\* of the process's errgroup, and a Start or a Wait that is under way. The
\* stream's next message, the cancellation of the caller's context and the
\* call of Wait are the environment's and need not happen.
WaitMenu ==
    {[pid |-> 1, pl |-> pl] :
        pl \in {Started, FileMsg(1, 1), ExitMsg(0, StatusOK), DoneMsg, OtherMsg}}
WaitReqs == {[stdin |-> sin, stdout |-> TRUE, stderr |-> TRUE, secret |-> FALSE] :
                sin \in {"none", "eof", "block"}}
WaitEnv == [NoEnv EXCEPT !.menu = WaitMenu, !.len = MaxWaitStream, !.users = {1},
                         !.reqs = WaitReqs, !.chunks = MaxWaitStdin]

\* the steps of one goroutine: the pump after stream.Recv returned, a Start
\* after Register, the event loop, the stdin copier, a Wait after it began
PumpStep == PumpLookup \/ PumpSend \/ PumpSendWoke
StartStep(p) == StartInit(p) \/ StartRecv(p) \/ StartCheck(p)
LoopStep(p) == LoopRecv(p) \/ LoopDispatch(p)
CopStep(p) == CopRead(p) \/ CopWrite(p) \/ CopEOF(p)
WaitStep(p) == WaitJoin(p) \/ Deregister(p) \/ CloseRecv(p) \/ CloseSend(p)

WaitNext ==
    \/ NewContainer
    \/ PumpRecv
    \/ PumpLookup
    \/ PumpSend
    \/ PumpSendWoke
    \/ \E p \in Procs : StartRegister(p)
    \/ \E p \in Procs : StartInit(p)
    \/ \E p \in Procs : StartRecv(p)
    \/ \E p \in Procs : StartCheck(p)
    \/ \E p \in Procs : CtxCancel(p)
    \/ \E p \in Procs : LoopRecv(p)
    \/ \E p \in Procs : LoopDispatch(p)
    \/ \E p \in Procs : DoneCloser(p)
    \/ \E p \in Procs : CopRead(p)
    \/ \E p \in Procs : CopWrite(p)
    \/ \E p \in Procs : CopEOF(p)
    \/ \E p \in Procs : WaitCall(p)
    \/ \E p \in Procs : WaitJoin(p)
    \/ \E p \in Procs : Deregister(p)
    \/ \E p \in Procs : CloseRecv(p)
    \/ \E p \in Procs : CloseSend(p)

\* every goroutine that can take a step eventually takes one
Scheduling ==
    /\ WF_vars(PumpStep)
    /\ \A p \in Procs :
          /\ WF_vars(StartStep(p))
          /\ WF_vars(LoopStep(p))
          /\ WF_vars(DoneCloser(p))
          /\ WF_vars(CopStep(p))
          /\ WF_vars(WaitStep(p))

WaitInit == HInit /\ EInit(WaitEnv, {AllCaps}) /\ RunInit("none") /\ AInit({LLBCaps})

SpecWait == WaitInit /\ [][WaitNext]_vars /\ Scheduling

\* Two container processes without stdin under the same fair scheduling; the
\* stream carries Started and output for both, and a Write of the caller's
\* writer may fail
IsolationMenu == {[pid |-> p, pl |-> pl] : p \in Procs, pl \in {Started, FileMsg(1, 1)}}
IsolationEnv == [NoEnv EXCEPT !.menu = IsolationMenu, !.len = MaxIsolationStream,
                              !.users = Procs, !.reqs = MuxReqs]

IsolationNext ==
    \/ NewContainer
    \/ PumpRecv
    \/ PumpLookup
    \/ PumpSend
    \/ PumpSendWoke
    \/ \E p \in Procs : StartRegister(p)
    \/ \E p \in Procs : StartInit(p)
    \/ \E p \in Procs : StartRecv(p)
    \/ \E p \in Procs : StartCheck(p)
    \/ \E p \in Procs : CtxCancel(p)
    \/ \E p \in Procs : LoopRecv(p)
    \/ \E p \in Procs : LoopDispatch(p)
    \/ \E p \in Procs : DoneCloser(p)
    \/ \E p \in Procs : WaitCall(p)
    \/ \E p \in Procs : WaitJoin(p)
    \/ \E p \in Procs : Deregister(p)
    \/ \E p \in Procs : CloseRecv(p)
    \/ \E p \in Procs : CloseSend(p)

IsolationInit ==
    HInit /\ EInit(IsolationEnv, {AllCaps}) /\ RunInit("none") /\ AInit({LLBCaps})

SpecIsolation == IsolationInit /\ [][IsolationNext]_vars /\ Scheduling

\* Solve with and without Evaluate, for every response, against peers with
\* and without GatewayEvaluateSolve and StatFile; the build function also
\* calls StatFile itself
EvalCapSets == SUBSET {CapGatewayEvaluateSolve, CapStatFile}
EvalEnv == [NoEnv EXCEPT !.creqs = {ClientSolveRequest(TRUE, {}, ev) : ev \in BOOLEAN},
                         !.resps = Resps]

EvalNext ==
    \/ Solve
    \/ StatFile

EvalInit == HInit /\ EInit(EvalEnv, EvalCapSets) /\ RunInit("none") /\ AInit({LLBCaps})

SpecEvaluate == EvalInit /\ [][EvalNext]_vars

\* New against peers that announce each list or none, or fail Ping; then the
\* client's calls that depend on capabilities
NewSpecNext ==
    \/ New
    \/ NewContainer
    \/ Inputs
    \/ StatFile
    \/ Solve
    \/ RunCall
    \/ RunFReturns

NewEnv == [NoEnv EXCEPT !.creqs = {ClientSolveRequest(TRUE, {LLBCapA, LLBCapB}, FALSE),
                                   ClientSolveRequest(TRUE, {LLBCapA}, FALSE)},
                        !.resps = {r \in RespLegacy : r.Ref # ""}]

NewSpecInit ==
    /\ HInit /\ EInit(NewEnv, {{}}) /\ RunInit("start") /\ ApiInit
    /\ llbCaps = {}
    /\ peer = [state |-> "new", api |-> CapList(TRUE, {}), llb |-> CapList(TRUE, {})]

SpecNew == NewSpecInit /\ [][NewSpecNext]_vars

\* The client API against peers of every capability set: Solve with
\* definitions whose metadata names LLB capabilities, Inputs, ReadDir,
\* StatFile, NewContainer, and the start of a process with or without secret
\* env
ClientCapSets == SUBSET {CapGatewayExec, CapGatewayExecSecretEnv, CapFrontendInputs,
                         CapReadDir, CapStatFile}
ClientLLBSets == {LLBCaps, {LLBCapA}}
ClientReqs == {[stdin |-> "none", stdout |-> TRUE, stderr |-> TRUE, secret |-> sec] :
                  sec \in BOOLEAN}
ClientEnv == [NoEnv EXCEPT !.menu = {[pid |-> 1, pl |-> Started]},
                           !.len = MaxClientStream, !.users = {1},
                           !.reqs = ClientReqs,
                           !.creqs = {ClientSolveRequest(TRUE, {LLBCapA, LLBCapB}, FALSE),
                                      ClientSolveRequest(TRUE, {LLBCapA}, TRUE),
                                      ClientSolveRequest(FALSE, {}, FALSE)},
                           !.resps = {r \in RespModern : r.kind = "Ref" /\ r.hasAtts}]

ClientNext ==
    \/ Solve
    \/ Inputs
    \/ ReadDir
    \/ StatFile
    \/ NewContainer
    \/ PumpRecv
    \/ PumpLookup
    \/ PumpSend
    \/ \E p \in Procs : StartRegister(p)
    \/ \E p \in Procs : StartInit(p)
    \/ \E p \in Procs : StartRecv(p)
    \/ \E p \in Procs : StartCheck(p)

ClientInit ==
    HInit /\ EInit(ClientEnv, ClientCapSets) /\ RunInit("none") /\ AInit(ClientLLBSets)

SpecClient == ClientInit /\ [][ClientNext]_vars

\* The Run driver; the build function may create a container, which starts
\* the multiplexer, and starts no process
RunEnv == [NoEnv EXCEPT !.menu = {[pid |-> NoProc, pl |-> DoneMsg]},
                        !.mounts = {RefNil, RefForeign, RefOther},
                        !.creqs = {ClientSolveRequest(TRUE, {}, FALSE)},
                        !.resps = {r \in RespLegacy : r.Ref # ""}]
RunCapSets == {S \cup {CapGatewayExec} : S \in SUBSET {CapReturnResult, CapReturnMap,
                                                        CapProtoRefArray}}

RunNext ==
    \/ RunCall
    \/ Solve
    \/ NewContainer
    \/ PumpRecv
    \/ PumpLookup
    \/ RunFReturns
    \/ ReleaseCancel
    \/ ReleaseWait
    \/ RunReleaseDefer
    \/ RunReturnDefer

RunSpecInit == HInit /\ EInit(RunEnv, RunCapSets) /\ RunInit("start") /\ AInit({LLBCaps})

SpecRun == RunSpecInit /\ [][RunNext]_vars

\* Concurrent and repeated calls of NewContainer, each running
\* messageForwarder.Start step by step; Release may be called at any time
\* Run whose build function returns the result of its last Solve, for every
\* response in the five encodings and peers of every set of the result
\* capabilities; no container is created
RoundEnv == [NoEnv EXCEPT !.creqs = {ClientSolveRequest(TRUE, {}, FALSE)},
                          !.resps = Resps, !.fAny = FALSE]
RoundCapSets == SUBSET {CapReturnResult, CapReturnMap, CapProtoRefArray}

RoundNext ==
    \/ RunCall
    \/ Solve
    \/ RunFReturns
    \/ ReleaseCancel
    \/ ReleaseWait
    \/ RunReleaseDefer
    \/ RunReturnDefer

RoundInit == HInit /\ EInit(RoundEnv, RoundCapSets) /\ RunInit("start") /\ AInit({LLBCaps})

SpecRoundTrip == RoundInit /\ [][RoundNext]_vars

StartNext ==
    \/ \E t \in StartCallers : NcCall(t)
    \/ \E t \in StartCallers : StartCheckErr(t)
    \/ \E t \in StartCallers : StartOnceDo(t)
    \/ \E t \in StartCallers : StartOnceBody(t)
    \/ \E t \in StartCallers : StartDefer(t)
    \/ PumpRecv
    \/ ReleaseCancel
    \/ ReleaseWait

\* Concurrent callers of NewContainer and of Send, with the pump and with
\* Register
SendEnv == [NoEnv EXCEPT !.menu = {[pid |-> 1, pl |-> Started]}, !.len = MaxClientStream,
                         !.users = {1}, !.reqs = MuxReqs]

SendNext ==
    \/ \E t \in StartCallers : NcCall(t)
    \/ \E t \in StartCallers : StartCheckErr(t)
    \/ \E t \in StartCallers : StartOnceDo(t)
    \/ \E t \in StartCallers : StartOnceBody(t)
    \/ \E t \in StartCallers : StartDefer(t)
    \/ PumpRecv
    \/ PumpLookup
    \/ PumpSend
    \/ \E p \in Procs : StartRegister(p)
    \/ \E t \in SendCallers : SendCall(t)
    \/ \E t \in SendCallers : SendLock(t)
    \/ \E t \in SendCallers : SendStream(t)
    \/ \E t \in SendCallers : SendStreamEnd(t)
    \/ \E t \in SendCallers : SendUnlock(t)

SendInit == HInit /\ EInit(SendEnv, {AllCaps}) /\ RunInit("none") /\ AInit({LLBCaps})

SpecSend == SendInit /\ [][SendNext]_vars

StartSpecInit == HInit /\ EInit(NoEnv, {AllCaps}) /\ RunInit("none") /\ AInit({LLBCaps})

SpecStart == StartSpecInit /\ [][StartNext]_vars

\* ------------------------------------------------------------------------
\* Properties
\* ------------------------------------------------------------------------

\* the Return RPCs issued so far
ReturnRpcs == {i \in 1..Len(rpcs) : rpcs[i].rpc = "Return"}

\* every reference a result holds: its Ref when Refs is nil, the entries of
\* Refs otherwise, and the references of its attestations
RefsOf(res) ==
    (IF res.hasRefs THEN {res.Refs[k] : k \in DOMAIN res.Refs} ELSE {res.Ref})
    \cup (IF res.hasAtts
          THEN UNION {{res.Attestations[k][i].ref : i \in 1..Len(res.Attestations[k])} :
                         k \in DOMAIN res.Attestations}
          ELSE {})

\* the build failed before the Return RPC: the build function returned an
\* error, or its result has several refs and the peer lacks ReturnMap, or a
\* reference of the result is neither nil nor a *reference
BuildErrorOccurred ==
    \/ run.ferr # Nil
    \/ /\ ~run.resNil
       /\ \/ NumRefs(run.res) > 1 /\ ~Supports(CapReturnMap)
          \/ \E r \in RefsOf(run.res) : r.type \notin {"nil", "reference"}

\* C1: when the build function returned an error E and Release returned a
\* non-nil error R, Run returns E and, in export mode, the Return RPC carries
\* E as its error payload.
C1_BuildErrorNotMaskedByRelease ==
    (run.pc = "done" /\ run.ferr # Nil /\ rel.err # Nil) =>
        /\ run.retError = run.ferr
        /\ \A i \in ReturnRpcs :
              rpcs[i].hasError /\ rpcs[i].body.Error = StatusOf(run.ferr)

\* C2: in export mode Run issues no Return RPC before the build function has
\* returned and exactly one by the time it returns, as its last RPC; the
\* request carries the Result when no build error occurred and the Error
\* otherwise, never both and never neither.  Without ReturnResult no Return
\* RPC is issued.
C2_ExactlyOneReturn ==
    /\ run.pc # "done" => ReturnRpcs = {}
    /\ ~Export => ReturnRpcs = {}
    /\ (run.pc = "done" /\ Export) =>
          /\ ReturnRpcs = {Len(rpcs)}
          /\ \A i \in ReturnRpcs :
                /\ rpcs[i].hasResult # rpcs[i].hasError
                /\ rpcs[i].hasResult = ~BuildErrorOccurred

\* C2 witness: Run has returned in export mode after a build function that
\* succeeded with a result that cannot be returned (a reference that does
\* not convert, or several refs without ReturnMap), having sent a Return RPC
\* with an error payload.
C2_ReturnSentOnFailurePath ==
    /\ run.pc = "done" /\ Export
    /\ run.ferr = Nil /\ ~run.resNil /\ BuildErrorOccurred
    /\ \E i \in ReturnRpcs : rpcs[i].hasError

\* C3: in export mode, when the build function failed with E and Release
\* returned nil, Run returns E whether the Return RPC succeeded or failed;
\* Run returns the failure of the Return RPC only when that RPC failed and
\* no build error preceded it.
C3_BuildErrorSurvivesReturn ==
    (run.pc = "done" /\ Export) =>
        /\ (run.ferr # Nil /\ rel.err = Nil) => run.retError = run.ferr
        /\ run.retError = "ReturnRpcErr" => (~run.rpcOk /\ ~BuildErrorOccurred)

\* C3 witness: the build function failed, Release returned nil, the Return
\* RPC failed, and Run has returned.
C3_ReturnFailedAfterBuildError ==
    /\ run.pc = "done" /\ Export
    /\ run.ferr # Nil /\ rel.err = Nil /\ ~run.rpcOk

\* Wait has returned for the process
WaitReturned(pr) == pr.u \in {"dereg", "closeRecv", "closeSend", "waited"}

\* the messages the process received are Started, any number of File
\* messages, Exit, Done
ExitSequence(g) ==
    /\ Len(g) >= 3
    /\ g[1].pl.k = "Started"
    /\ g[Len(g)].pl.k = "Done"
    /\ g[Len(g) - 1].pl.k = "Exit"
    /\ \A i \in 2..(Len(g) - 2) : g[i].pl.k = "File"

\* what Wait is to return after Exit(code, st)
ExpectedWait(exit) ==
    IF exit.code = 0 THEN Nil
    ELSE IF exit.code # UnknownExitStatus
    THEN ExitError(exit.code, StatusError(exit.st))
    ELSE StatusError(exit.st)

\* C4: for a process that received Started, File messages, Exit(c, s), Done,
\* whose context was not cancelled, whose writers did not fail and whose
\* stdin sends did not fail, Wait returns nil when c = 0, ExitError{c, inner}
\* when c is non-zero and not UnknownExitStatus, the bare inner error when c
\* is UnknownExitStatus; and a non-zero c makes Wait return a non-nil error.
C4_WaitReportsExit ==
    \A p \in Procs :
        LET pr == proc[p]
        IN (/\ WaitReturned(pr) /\ ~pr.ctx /\ ~pr.sendFail
            /\ pr.end = "done" /\ ExitSequence(pr.got)) =>
              LET exit == pr.got[Len(pr.got) - 1].pl
              IN /\ pr.ret = ExpectedWait(exit)
                 /\ exit.code # 0 => pr.ret # Nil

\* C5: done is closed at most once for every process, and it has been
\* closed when Wait has returned.
C5_DoneClosedOnce ==
    \A p \in Procs :
        /\ proc[p].nclose <= 1
        /\ WaitReturned(proc[p]) => proc[p].nclose = 1

\* C5 witness: Wait has returned for a process whose event loop received an
\* Exit message and then ended on the cancellation of its context, so that
\* both places that close done have run.
C5_ExitThenCancelWaited ==
    \E p \in Procs :
        /\ proc[p].u = "waited"
        /\ proc[p].end = "ctx"
        /\ \E i \in 1..Len(proc[p].got) : proc[p].got[i].pl.k = "Exit"

\* C6: the messages Recv returned on p's mailbox are messages the stream
\* produced, addressed to p, in the order of the stream and without
\* repetition.
C6_InOrderSubsequence ==
    \A p \in Procs :
        LET g == proc[p].got
        IN \A i \in 1..Len(g) :
              /\ g[i].pid = p
              /\ g[i].seq \in 1..nprod
              /\ i > 1 => g[i - 1].seq < g[i].seq

\* C6 witness: one process has received two messages and another process
\* one, from the same stream.
C6_TwoMailboxesServed ==
    \E p, q \in Procs :
        /\ p # q
        /\ Len(proc[p].got) >= 2
        /\ Len(proc[q].got) >= 1

\* C7: the step of the pump for a message whose process id has no mailbox at
\* the lookup leaves the mailbox map, every mailbox and every process as
\* they are, reports no error from the pump, and takes the pump to its next
\* stream Recv.
C7_UnregisteredDropped ==
    [][(pump.pc = "lookup" /\ pump.msg.pid \notin pids /\ pump' # pump) =>
          /\ pump'.pc = "recv"
          /\ pids' = pids /\ mb' = mb /\ proc' = proc
          /\ pumpErr' = pumpErr /\ pumpErr = Nil
          /\ rel' = rel /\ ~panicked']_vars

\* C7 witness: the pump has dropped a message while a process was
\* registered and now delivers a later message to a registered process.
C7_DroppedThenDelivering ==
    /\ pump.drops > 0
    /\ pump.pc = "send"
    /\ pump.msg.pid \in pids

C9_RecvAfterCloseTerminal ==
    \A t \in HReceivers :
        (hth[t].pc = "ret" /\ hth[t].after /\ ~hctx[t]) =>
            (hth[t].m = Nil /\ ~hth[t].ok)

\* C10: a Send that began after Close returned neither blocks nor panics,
\* and no Recv that began after Close returns its message.
C10_SendAfterCloseDropped ==
    /\ \A t \in HSenders : hth[t].after => hth[t].pc \notin {"parked", "panic"}
    /\ \A r \in HReceivers : hth[r].after => hth[r].m = Nil

\* C11: whatever number of NewContainer calls run messageForwarder.Start,
\* one after another or concurrently, client.ExecProcess is called at most
\* once and at most one pump goroutine is started.
C11_StreamOpenedAtMostOnce ==
    starts.opened <= 1 /\ starts.spawned <= 1

\* C11 witness: the caller whose call opened the stream has returned from its
\* first NewContainer, and the other caller is in its second call of Start.
C11_ConcurrentAndRepeatedStart ==
    /\ starts.opened = 1
    /\ \E t, u \in StartCallers :
          /\ t # u
          /\ starts.th[t].tried /\ starts.th[t].n = 1 /\ starts.th[t].pc = "idle"
          /\ starts.th[u].n = 2 /\ starts.th[u].pc = "defer"

\* C12: a call of Start that begins after a call of Start returned the error
\* E returns E without calling ExecProcess, and no call of Start returns
\* nil once a call of Start has returned an error.
C12_StartFailsPermanently ==
    \A t \in StartCallers :
        (starts.th[t].pc = "idle" /\ starts.th[t].reached) =>
            /\ starts.th[t].after # Nil =>
                  (starts.th[t].ret = starts.th[t].after /\ ~starts.th[t].tried)
            /\ ~starts.th[t].late

\* the Solve RPCs issued so far, and those sent with Final
SolveRpcs == {i \in 1..Len(rpcs) : rpcs[i].rpc = "Solve"}
FinalSolves == {i \in SolveRpcs : rpcs[i].body.Final}

\* the build function returned a result with several refs, and no error, to
\* a client whose peer lacks ReturnMap
MultiRefWithoutReturnMap ==
    /\ run.ferr = Nil /\ ~run.resNil
    /\ NumRefs(run.res) > 1 /\ ~Supports(CapReturnMap)

\* C14: when the build function returns a result with several refs and the
\* peer lacks ReturnMap, Run returns the missing-capability error; in export
\* mode the Return RPC carries that error and no result, in legacy mode no
\* final Solve is issued.
C14_MultiRefNeedsReturnMap ==
    (run.pc = "done" /\ MultiRefWithoutReturnMap) =>
        /\ run.retError = CapError(CapReturnMap)
        /\ \A i \in ReturnRpcs :
              /\ ~rpcs[i].hasResult /\ rpcs[i].hasError
              /\ rpcs[i].body.Error = StatusOf(CapError(CapReturnMap))
        /\ FinalSolves = {}

\* the Solve RPCs whose response was a legacy inline response with ref id r
InlineSolves(r) ==
    {i \in SolveRpcs : ~rpcs[i].body.Final /\ ~rpcs[i].resp.hasResult /\ rpcs[i].resp.Ref = r}

\* the last element of a non-empty set of indices
LastOf(S) == CHOOSE i \in S : \A j \in S : j <= i

\* Run has returned for a peer lacking ReturnResult after the build function
\* returned, without error, a result whose Ref is a reference with the id of
\* a legacy inline response
ReturnedInlineRef ==
    /\ run.pc = "done" /\ ~Export
    /\ run.ferr = Nil /\ ~run.resNil
    /\ NumRefs(run.res) <= 1
    /\ run.res.Ref.type = "reference" /\ run.res.Ref.id # ""
    /\ InlineSolves(run.res.Ref.id) # {}

\* C15: for a peer lacking ReturnResult, after a Solve whose response had no
\* embedded result and the ref id r, a Run whose build function returns a
\* result with Ref id r issues exactly one further Solve RPC, as its last
\* RPC: the request of that Solve with Final set and ExporterAttr the JSON
\* encoding of the result's metadata; it issues no Return RPC.
C15_LegacyInlineReturn ==
    ReturnedInlineRef =>
        /\ FinalSolves = {Len(rpcs)}
        /\ rpcs[Len(rpcs)].body =
              [rpcs[LastOf(InlineSolves(run.res.Ref.id))].body EXCEPT
                  !.Final = TRUE, !.ExporterAttr = JsonMarshal(run.res.Metadata)]
        /\ ReturnRpcs = {}

\* C15 witness: Run has returned in legacy mode a result whose Ref has the id
\* of an inline response and whose metadata is not empty, after the final
\* Solve.
C15_InlineRefReturned ==
    /\ ReturnedInlineRef
    /\ run.res.Metadata # Nil
    /\ FinalSolves # {}

\* the ref ids a wire result carries
WireIds(pb) ==
    CASE pb.kind = "Ref" -> {pb.val.Id}
      [] pb.kind = "RefDeprecated" -> {pb.val}
      [] pb.kind = "Refs" -> {pb.val[k].Id : k \in DOMAIN pb.val}
      [] pb.kind = "RefsDeprecated" -> {pb.val[k] : k \in DOMAIN pb.val}
      [] OTHER -> {}

\* the ref ids of the attestations of a wire result
WireAttIds(atts) ==
    UNION {{atts[k][i].Ref.Id : i \in 1..Len(atts[k])} : k \in DOMAIN atts}

\* the ids of references this client did not produce
ForeignIds == {RefForeign.id, RefOther.id}

\* a reference that is not nil and that this client did not produce
IsForeign(ref) == ref.type # "nil" /\ (ref.type # "reference" \/ ref.c # "c")

\* C18: a reference this client did not produce - a reference of another
\* client or another implementation of Reference - is never sent to the
\* daemon, neither in the result of a Return RPC nor as the mount of a
\* NewContainer RPC; NewContainer with such a mount fails with the
\* invalid-type error, and so does Run in export mode when the returned
\* result's Ref is such a reference.
C18_ForeignReferenceRejected ==
    /\ \A i \in ReturnRpcs :
          rpcs[i].hasResult =>
              (WireIds(rpcs[i].body.Result.Result)
               \cup WireAttIds(rpcs[i].body.Result.Attestations)) \cap ForeignIds = {}
    /\ \A i \in 1..Len(rpcs) :
          rpcs[i].rpc = "NewContainer" => rpcs[i].mount \notin ForeignIds
    /\ (api.op = "NewContainer" /\ IsForeign(api.arg) /\ Supports(CapGatewayExec)) =>
          api.err = "unexpected type for reference"
    /\ (run.pc = "done" /\ Export /\ run.ferr = Nil /\ ~run.resNil /\ ~run.res.hasRefs
        /\ IsForeign(run.res.Ref)) =>
          run.sentErr = "invalid return reference type"

\* the payload kinds of the messages the readers of a process's mailbox
\* received, in order
KindsOf(g) == [i \in 1..Len(g) |-> g[i].pl.k]

\* the inbound order Started, File*, Exit, Done is violated by a sequence of
\* payload kinds: a payload that is not recognized, a Started that is not
\* the first message, or a File or an Exit after an Exit
OrderViolated(ks) ==
    \/ \E j \in 1..Len(ks) : ks[j] \notin {"Started", "File", "Exit", "Done"}
    \/ \E j \in 2..Len(ks) : ks[j] = "Started"
    \/ \E i, j \in 1..Len(ks) : i < j /\ ks[i] = "Exit" /\ ks[j] \in {"File", "Exit"}

\* C19: when the messages a process received violate the order Started,
\* File*, Exit, Done (a second Started, a File after Exit, an Exit after
\* Exit, an envelope with no recognized payload), Start or Wait returns an
\* error.
C19_OrderViolationIsError ==
    \A p \in Procs :
        (WaitReturned(proc[p]) /\ OrderViolated(KindsOf(proc[p].got))) =>
            proc[p].ret # Nil

\* a process whose Start received a message in reply to Init
StartAnswered(pr) == Len(pr.got) >= 1

\* no task of the process was launched
NoTaskLaunched(pr) == pr.loop = "off" /\ pr.closer = "off" /\ pr.cop = "off"

\* the outbound messages of process p
SentBy(p) == SelectSeq(sent, LAMBDA m : m.pid = p)

\* C20: container.Start sends Init as the first outbound message of its
\* process; once Start has returned, it returned a handle exactly when the
\* first message received from the mailbox is Started, and when it returned
\* an error (another first message, or none because the context was
\* cancelled) no stdin, done-closer or event-loop task was launched.
C20_StartHandshake ==
    \A p \in Procs :
        /\ SentBy(p) # <<>> => SentBy(p)[1].k = "Init"
        /\ proc[p].u \notin {"new", "init", "recvStarted", "parkedStarted", "checkStarted"} =>
              /\ proc[p].u # "startErr" <=>
                    (StartAnswered(proc[p]) /\ proc[p].got[1].pl.k = "Started")
              /\ proc[p].u = "startErr" =>
                    (proc[p].ret # Nil /\ NoTaskLaunched(proc[p]))
              /\ proc[p].u # "startErr" => proc[p].loop # "off" /\ proc[p].closer # "off"

\* C20 witness: one Start has returned an error because the first message
\* was not Started, after Init was sent.
C20_FirstMessageNotStarted ==
    \E p \in Procs :
        /\ proc[p].u = "startErr"
        /\ StartAnswered(proc[p]) /\ proc[p].got[1].pl.k # "Started"
        /\ SentBy(p) # <<>>

\* the step is a call of the API operation op
ApiStep(op) == api'.n = api.n + 1 /\ api'.op = op

\* the step sends nothing to the daemon: no unary RPC, no message on the exec
\* stream, and the exec stream is not opened
NothingSent == rpcs' = rpcs /\ sent' = sent /\ stream' = stream

\* the step is the call of container.Start for p with a request that has
\* secret env
StartsWithSecretEnv(p) == proc[p].u = "new" /\ proc'[p].u # "new" /\ proc'[p].req.secret

\* C13: a capability-gated operation whose capability the peer lacks returns
\* the missing-capability error and sends nothing to the daemon: Solve with a
\* definition whose metadata names a missing LLB capability, NewContainer
\* without GatewayExec, Inputs without FrontendInputs, ReadDir without
\* ReadDir, StatFile without StatFile, and container.Start with secret env
\* without GatewayExecSecretEnv, which never sends Init.
C13_CapabilityGateBeforeRpc ==
    [][/\ (ApiStep("Solve") /\ api'.arg.hasDef /\ api'.arg.mdCaps \ llbCaps # {}) =>
             /\ NothingSent
             /\ api'.err \in {CapError(cap) : cap \in api'.arg.mdCaps \ llbCaps}
       /\ (ApiStep("NewContainer") /\ ~Supports(CapGatewayExec)) =>
             NothingSent /\ api'.err = CapError(CapGatewayExec)
       /\ (ApiStep("Inputs") /\ ~Supports(CapFrontendInputs)) =>
             NothingSent /\ api'.err = CapError(CapFrontendInputs)
       /\ (ApiStep("ReadDir") /\ ~Supports(CapReadDir)) =>
             NothingSent /\ api'.err = CapError(CapReadDir)
       /\ (ApiStep("StatFile") /\ ~Supports(CapStatFile)) =>
             NothingSent /\ api'.err = CapError(CapStatFile)
       /\ \A p \in Procs :
             /\ (StartsWithSecretEnv(p) /\ ~Supports(CapGatewayExecSecretEnv)) =>
                   /\ NothingSent
                   /\ proc'[p].u = "startErr"
                   /\ proc'[p].ret = CapError(CapGatewayExecSecretEnv)
             /\ (proc[p].u = "startErr" /\ proc[p].ret = CapError(CapGatewayExecSecretEnv)) =>
                   (proc'[p] = proc[p] /\ SentBy(p) = <<>>)
      ]_vars

\* C13 witness: a Start with secret env was refused for the missing
\* capability, and the last call of the API was a Solve refused for an LLB
\* capability the peer lacks, after an earlier call of the API; nothing was
\* sent on the exec stream and at most the earlier call issued an RPC.
C13_GatedCallsRefused ==
    /\ \E p \in Procs :
          proc[p].u = "startErr" /\ proc[p].ret = CapError(CapGatewayExecSecretEnv)
    /\ api.n = 2 /\ api.op = "Solve" /\ api.err = CapError(LLBCapB)
    /\ sent = <<>>
    /\ Len(rpcs) <= 1

\* the attestations of a wire result as the keys that have attestations and,
\* per key, the ref id and the path of each attestation in order
LogicalAtts(atts) ==
    [k \in {j \in DOMAIN atts : atts[j] # <<>>} |->
        [i \in 1..Len(atts[k]) |-> [id |-> atts[k][i].Ref.Id, path |-> atts[k][i].Path]]]

\* the logical result of a Solve response with an embedded result: its ref
\* ids under their keys (the single ref under the key "", absent when its id
\* is empty), its metadata, and its attestations
LogicalOfResp(resp) ==
    [refs |-> IF resp.kind \in {"RefsDeprecated", "Refs"}
              THEN {<<k, resp.refs[k].Id>> : k \in DOMAIN resp.refs}
              ELSE {<<"", resp.single.Id>>} \ {<<"", "">>},
     md |-> resp.Metadata,
     atts |-> IF resp.hasAtts THEN LogicalAtts(resp.Attestations) ELSE <<>>]

\* the logical result of the pb.Result of a Return RPC
LogicalOfReturn(pb) ==
    [refs |-> CASE pb.Result.kind = "Ref" -> {<<"", pb.Result.val.Id>>} \ {<<"", "">>}
                [] pb.Result.kind = "RefDeprecated" -> {<<"", pb.Result.val>>} \ {<<"", "">>}
                [] pb.Result.kind = "Refs" ->
                     {<<k, pb.Result.val[k].Id>> : k \in DOMAIN pb.Result.val}
                [] pb.Result.kind = "RefsDeprecated" ->
                     {<<k, pb.Result.val[k]>> : k \in DOMAIN pb.Result.val}
                [] OTHER -> {},
     md |-> pb.Metadata,
     atts |-> LogicalAtts(pb.Attestations)]

\* the peer's capabilities match the encoding of the response: no
\* ReturnResult for the legacy inline response, ReturnResult without
\* ProtoRefArray for the deprecated encodings, both for the modern ones, and
\* ReturnMap for a map of several refs
MatchingCaps(resp) ==
    /\ resp.hasResult <=> Export
    /\ resp.kind \in {"RefDeprecated", "RefsDeprecated"} => ~Supports(CapProtoRefArray)
    /\ resp.kind \in {"Ref", "Refs"} => Supports(CapProtoRefArray)
    /\ Cardinality(DOMAIN resp.refs) > 1 => Supports(CapReturnMap)

\* Run has returned after the build function returned the result of its last
\* Solve, to a peer whose capabilities match the response
RoundTripDone ==
    /\ run.pc = "done"
    /\ run.ferr = Nil /\ ~run.resNil
    /\ api.op = "Solve" /\ api.err = Nil /\ ~api.isNil
    /\ run.res = api.res
    /\ MatchingCaps(api.resp)

\* C16: the Result Solve decoded from a response in any of the five
\* encodings, returned from the build function and re-encoded by Run for a
\* peer with matching capabilities, is the same logical result: the Return
\* RPC carries the same ref ids under the same keys, the same metadata and
\* per key the same attestations in the same order; for the legacy inline
\* response the final Solve is the request that produced the ref (the empty
\* request for an empty id), with the JSON of the metadata.
C16_ResultRoundTrip ==
    RoundTripDone =>
        IF Export
        THEN /\ FinalSolves = {}
             /\ \A i \in ReturnRpcs :
                   /\ rpcs[i].hasResult /\ ~rpcs[i].hasError
                   /\ LogicalOfReturn(rpcs[i].body.Result) = LogicalOfResp(api.resp)
             /\ ReturnRpcs # {}
        ELSE /\ ReturnRpcs = {}
             /\ FinalSolves = {Len(rpcs)}
             /\ rpcs[Len(rpcs)].body =
                   [(IF api.resp.Ref # "" THEN api.req ELSE EmptyReq) EXCEPT
                       !.Final = TRUE, !.ExporterAttr = JsonMarshal(api.resp.Metadata)]

\* C16 witness: the round trip of a response with an embedded result that
\* has two attestations under one key is done.
C16_AttestationsRoundTripped ==
    /\ RoundTripDone
    /\ api.resp.hasResult /\ api.resp.hasAtts
    /\ \E k \in DOMAIN api.resp.Attestations : Len(api.resp.Attestations[k]) = 2

\* C17: every reference Solve places in a Result - the single ref, a map
\* entry, an attestation's ref - has a non-empty id, for every response in
\* every encoding.
C17_ReferenceIdsNonEmpty ==
    (api.op = "Solve" /\ ~api.isNil) =>
        \A r \in RefsOf(api.res) : r.type = "reference" => r.id # ""

\* C21: after Wait returned for a process its id is absent from the mailbox
\* map, and every later Resize, Signal or stdin write of the process returns
\* the 'process has ended' error (Signal of an unknown signal its own error)
\* and writes nothing to the exec stream.
C21_NoSendAfterWait ==
    [][\A p \in Procs :
          proc[p].u = "waited" =>
              /\ p \notin pids /\ p \notin pids'
              /\ SentBy(p)' = SentBy(p)
              /\ proc'[p].cop = proc[p].cop
              /\ proc'[p].nctl # proc[p].nctl =>
                    (~proc'[p].ctlSent /\ proc'[p].ctlErr \in {"processEnded", "unknown signal"})
      ]_vars

\* C21 witness: Wait has returned for a process that sent Init, and a Resize
\* or Signal called afterwards was refused because the process has ended,
\* after an earlier call was sent on the stream.
C21_ControlAfterWaitRefused ==
    \E p \in Procs :
        /\ proc[p].u = "waited"
        /\ proc[p].nctl = 2 /\ proc[p].ctlErr = "processEnded"
        /\ \E i \in 1..Len(sent) : sent[i].pid = p /\ sent[i].k \in {"Resize", "Signal"}

\* the RPCs of the last call of Solve: the Solve RPC and what follows it
LastSolveAt == LastOf(SolveRpcs)
StatsOfLastSolve == SubSeq(rpcs, LastSolveAt + 1, Len(rpcs))

\* the last call of the API was a Solve that issued its RPC
SolveIssued == api.op = "Solve" /\ SolveRpcs # {} /\ api.req = rpcs[LastOf(SolveRpcs)].body

\* the parts of the Evaluate handling that do not depend on where the visit
\* of the refs ends: the flag on the wire, no StatFile unless the fallback
\* applies and the Solve RPC succeeded, and the error Solve returns
EvaluateHandling ==
    SolveIssued =>
        /\ rpcs[LastSolveAt].body.Evaluate =
              (api.arg.Evaluate /\ Supports(CapGatewayEvaluateSolve))
        /\ (~api.arg.Evaluate \/ Supports(CapGatewayEvaluateSolve) \/ api.isNil
            \/ ~Supports(CapStatFile)) => StatsOfLastSolve = <<>>
        /\ (api.arg.Evaluate /\ ~Supports(CapGatewayEvaluateSolve) /\ ~api.isNil) =>
              /\ \A i \in 1..Len(StatsOfLastSolve) : StatsOfLastSolve[i].rpc = "StatFile"
              /\ {StatsOfLastSolve[i].ref : i \in 1..Len(StatsOfLastSolve)}
                    \subseteq {x[4] : x \in RefIdsOf(api.res)}
              /\ Supports(CapStatFile) => api.err = FirstErr(StatsOfLastSolve)

\* C22 as stated: with Evaluate=true and GatewayEvaluateSolve the wire
\* request carries the flag and no StatFile is issued; without the capability
\* the flag is not sent and, after the Solve RPC succeeded, StatFile is issued
\* on the refs of the result one after another until the first failure, whose
\* error Solve returns; with Evaluate=false neither is sent.
C22_EvaluateStopsAtFirstFailure ==
    /\ EvaluateHandling
    /\ (SolveIssued /\ ~api.isNil) =>
          \A i, j \in 1..Len(StatsOfLastSolve) :
              i < j => StatsOfLastSolve[i].err = Nil

\* C22 amended: as stated, except that StatFile is issued on every ref of the
\* result, also after a failure, and Solve returns the error of the first
\* StatFile that failed; without the StatFile capability no StatFile is sent
\* and Solve returns the missing-capability error when the result has a ref.
C22_EvaluateVisitsEveryRef ==
    /\ EvaluateHandling
    /\ (SolveIssued /\ api.arg.Evaluate /\ ~Supports(CapGatewayEvaluateSolve)
        /\ ~api.isNil) =>
          IF Supports(CapStatFile)
          THEN Len(StatsOfLastSolve) = Cardinality(RefIdsOf(api.res))
          ELSE api.err = IF RefIdsOf(api.res) = {} THEN Nil ELSE CapError(CapStatFile)

\* C22 witness: a Solve with Evaluate against a peer without
\* GatewayEvaluateSolve issued StatFile on the two refs of its result, the
\* first of which failed, and returned the error of the first.
C22_FallbackFirstRefFailed ==
    /\ SolveIssued /\ api.arg.Evaluate /\ ~api.isNil
    /\ Len(StatsOfLastSolve) = 2
    /\ StatsOfLastSolve[1].err # Nil
    /\ api.err = StatsOfLastSolve[1].err

\* C23: after a successful Ping the client's frontend-API capability set is
\* the peer's list when the peer supplied one and the default set
\* {SolveBase, SolveInlineReturn, ResolveImage, ReadFile} otherwise, and
\* independently so for the LLB set; the sets never change afterwards, so a
\* peer that announces nothing lacks ReturnResult, ReturnMap, ProtoRefArray
\* and GatewayExec; after a failed Ping there is no client: no call is made.
C23_CapabilityHandshake ==
    [][/\ peer'.state = "ok" =>
             /\ caps' = IF peer'.api.nil THEN DefaultCaps ELSE peer'.api.ids
             /\ llbCaps' = IF peer'.llb.nil THEN DefaultLLBCaps ELSE peer'.llb.ids
             /\ peer'.api.nil =>
                   {CapReturnResult, CapReturnMap, CapProtoRefArray, CapGatewayExec}
                       \cap caps' = {}
             /\ (peer'.api.nil /\ api'.n # api.n /\ api'.op = "NewContainer") =>
                   api'.err = CapError(CapGatewayExec)
       /\ peer.state = "ok" => (caps' = caps /\ llbCaps' = llbCaps /\ peer' = peer)
       /\ peer.state = "failed" => UNCHANGED vars
      ]_vars

\* C23 witness: the peer announced LLB capabilities and no frontend-API
\* capabilities, and the client made with the default set refused
\* NewContainer.
C23_DefaultsForSilentPeer ==
    /\ peer.state = "ok" /\ peer.api.nil /\ ~peer.llb.nil
    /\ caps = DefaultCaps /\ llbCaps = {LLBCapB}
    /\ api.op = "NewContainer" /\ api.err = CapError(CapGatewayExec)

\* C24: when the caller's context is cancelled while the event loop of a
\* started process waits for a message, a Wait that is called returns, and
\* what it returns is not nil: the cancellation cause, or the error of a
\* stdin send that failed first.
C24_CancelEndsWait ==
    \A p \in Procs :
        (proc[p].cwait /\ proc[p].u = "wait")
            ~> (/\ proc[p].u = "waited"
                /\ proc[p].nclose = 1
                /\ proc[p].ret # Nil
                /\ (proc[p].ret = "contextCanceled" \/ proc[p].sendFail))

\* the File messages with fd 0 and data that process p sent, in order
StdinData(p) == SelectSeq(SentBy(p), LAMBDA m : m.k = "File0")

\* the positions of File messages with fd 0 and EOF among those p sent
StdinEOFs(p) == {i \in 1..Len(SentBy(p)) : SentBy(p)[i].k = "File0EOF"}

\* C25: for a process started with stdin the File messages with fd 0 carry
\* the chunks of the caller's stdin in order; at most one File message with
\* fd 0 and EOF is sent, after the copy ended by EOF (every chunk was sent)
\* or by the closing of the pipe on done, and no fd 0 data follows it;
\* without stdin no File message with fd 0 is sent. The Init message
\* declares fd 0 iff the request has a stdin.
C25_StdinBridging ==
    \A p \in Procs :
        LET s == SentBy(p)
            data == StdinData(p)
            r == proc[p].req
        IN /\ \A i \in 1..Len(data) : data[i].d = {i}
           /\ Cardinality(StdinEOFs(p)) <= 1
           /\ \A i \in StdinEOFs(p) :
                 /\ \/ proc[p].rdClosed
                    \/ /\ r.stdin = "eof"
                       /\ Len(data) = env.chunks
                       /\ \A j \in 1..Len(data) : data[j].ok
                 /\ \A j \in (i + 1)..Len(s) : s[j].k # "File0"
           /\ r.stdin = "none" => (data = <<>> /\ StdinEOFs(p) = {})
           /\ \A i \in 1..Len(s) :
                 s[i].k = "Init" => (0 \in s[i].d <=> r.stdin # "none")

\* C25 witness: a stdin of two chunks that ended was sent as two data
\* messages and the final message, the pipe never closed.
C25_StdinCopiedToEOF ==
    \E p \in Procs :
        /\ proc[p].req.stdin = "eof" /\ ~proc[p].rdClosed
        /\ Len(StdinData(p)) = 2
        /\ StdinEOFs(p) # {}
        /\ \A i \in 1..Len(SentBy(p)) : SentBy(p)[i].ok

\* the messages the event loop of pr has received and dispatched: those Recv
\* returned after the Started message, but for one not dispatched yet
LoopDispatched(pr) ==
    LET all == SubSeq(pr.got, 2, Len(pr.got))
    IN IF pr.loop = "got" /\ pr.rmsg # NoMsg THEN SubSeq(all, 1, Len(all) - 1) ELSE all

\* the data written to a writer: the data of the calls of its Write, in order
WrittenTo(pr, w) ==
    LET calls == SelectSeq(pr.wr, LAMBDA c : c.w = w)
    IN [i \in 1..Len(calls) |-> calls[i].seq]

\* the data of the File messages for fd that are not empty, in order
DataFor(msgs, fd) ==
    LET files == SelectSeq(msgs, LAMBDA m : m.pl.k = "File" /\ m.pl.fd = fd /\ m.pl.n > 0)
    IN [i \in 1..Len(files) |-> files[i].seq]

\* a File message for which the request has no writer
Unroutable(pr, m) ==
    /\ m.pl.k = "File"
    /\ ~(m.pl.fd = 1 /\ pr.req.stdout)
    /\ ~(m.pl.fd = 2 /\ pr.req.stderr)

\* C26: what was written to the caller's stdout is the data of the File
\* messages for fd 1 the event loop received that are not empty, in the
\* order of delivery, and likewise stderr and fd 2; a message without data
\* causes no Write; a File message for an fd without a writer ends the event
\* loop with the 'missing writer' error, and only the last message can be
\* one.
C26_OutputRouting ==
    \A p \in Procs :
        LET pr == proc[p]
            msgs == LoopDispatched(pr)
        IN /\ pr.req.stdout => WrittenTo(pr, "stdout") = DataFor(msgs, 1)
           /\ pr.req.stderr => WrittenTo(pr, "stderr") = DataFor(msgs, 2)
           /\ \A i \in 1..Len(pr.wr) : pr.wr[i].w \in {"stdout", "stderr"}
           /\ Len(pr.wr) = Len(WrittenTo(pr, "stdout")) + Len(WrittenTo(pr, "stderr"))
           /\ ~pr.req.stdout => WrittenTo(pr, "stdout") = <<>>
           /\ ~pr.req.stderr => WrittenTo(pr, "stderr") = <<>>
           /\ \A i \in 1..Len(msgs) :
                 Unroutable(pr, msgs[i]) =>
                    /\ i = Len(msgs)
                    /\ pr.loop = "ended"
                    /\ pr.end = "missingWriter"
                    /\ pr.egErr = "missingWriter"

\* C26 witness: stdout got the data of two messages with one for stderr
\* written between them, and an empty message for fd 1 caused no Write.
C26_InterleavedOutputs ==
    \E p \in Procs :
        /\ Len(proc[p].wr) = 2
        /\ proc[p].wr[1].w = "stderr" /\ proc[p].wr[2].w = "stdout"
        /\ Len(LoopDispatched(proc[p])) = 3
        /\ \E i \in 1..3 : LoopDispatched(proc[p])[i].pl = FileMsg(1, 0)

\* C27: Release returns nil when the pump was never started or ended on
\* EOF or on an RPC-level Canceled, and the receive error when the pump
\* ended on any other receive error; after such an error the pump delivers
\* no message to any mailbox.
C27_ReleaseReportsPumpError ==
    [][/\ rel'.pc = "ret" =>
             /\ pump'.pc \in {"off", "ended"}
             /\ pump'.pc = "off" => (pump'.end = Nil /\ rel'.err = Nil)
             /\ pump'.end \in {"eof", "canceled"} => rel'.err = Nil
             /\ pump'.end = "error" => rel'.err = "RecvErr"
       /\ pump.end = "error" =>
             /\ pump' = pump
             /\ \A p \in Procs : proc'[p].got = proc[p].got
      ]_vars

\* C27 witness: the pump delivered a message, then ended on a receive error
\* other than EOF and Canceled, and Release returned that error.
C27_ReleaseAfterRecvError ==
    /\ rel.pc = "ret" /\ rel.err = "RecvErr"
    /\ pump.end = "error"
    /\ \E p \in Procs : proc[p].got # <<>>

\* C28: no two calls of stream.Send overlap: a goroutine is inside
\* stream.Send, or between the lookup and it, only while it holds the
\* mutex; and stream.Recv has a single caller: only the pump goroutine calls
\* it, and at most one pump goroutine is ever started.
C28_SingleWriterSingleReader ==
    /\ Cardinality(StreamWriters) <= 1
    /\ \A t \in SendCallers : snd[t].pc \in {"locked", "inStream"} => mu = t
    /\ starts.spawned <= 1
    /\ nprod > 0 => starts.spawned = 1

\* C28 witness: one goroutine is inside stream.Send while the other waits
\* for the mutex, the pump has received from the stream, and both callers of
\* NewContainer have run Start.
C28_SenderWaitsForSender ==
    /\ \E t, u \in SendCallers : snd[t].pc = "inStream" /\ snd[u].pc = "want"
    /\ nprod > 0
    /\ \A c \in StartCallers : starts.th[c].n > 0 /\ starts.th[c].pc = "idle"

\* C29: once the event loop of a started process has ended, a Wait that was
\* called returns (unless the program has crashed in it).
C29_WaitTerminates ==
    \A p \in Procs :
        (proc[p].loop = "ended" /\ proc[p].u = "wait")
            ~> (proc[p].u = "waited" \/ panicked)

\* process q is registered, its event loop has ended and its Wait has not
\* been called: nothing receives from its mailbox
Abandoned(q) == q \in pids /\ proc[q].loop = "ended" /\ proc[q].u = "running"

\* C30: while nothing receives from the mailbox of a registered process q,
\* the pump does not stay in the Send on q's mailbox: it returns to
\* stream.Recv, so that the messages the stream has for another registered
\* process p, whose event loop is waiting in Recv, are delivered.
C30_MailboxesIsolated ==
    \A q \in Procs :
        (/\ Abandoned(q)
         /\ PumpParkedOn(q)
         /\ \E p \in Procs \ {q} : p \in pids /\ proc[p].loop = "parked")
            ~> (~Abandoned(q) \/ ~PumpParkedOn(q))

\* C31: a call of Start returns nil, and NewContainer hands out a container,
\* only when the ExecProcess stream was opened: no caller, one that waited
\* at the once while another caller's ExecProcess failed included, gets a
\* container whose multiplexer has no stream.
C31_ContainerOnlyWithStream ==
    /\ nctr > 0 => stream = "open"
    /\ \A t \in StartCallers :
          (starts.th[t].pc = "idle" /\ starts.th[t].reached /\ starts.th[t].ret = Nil)
              => stream = "open"

\* C32: when container.Start has returned an error, m.pids has no entry for
\* the process id of that call; the registered processes are those whose
\* Start is under way or returned a handle and whose Wait has not removed
\* them.
C32_FailedStartNotRegistered ==
    \A p \in Procs :
        /\ proc[p].u = "startErr" => p \notin pids
        /\ p \in pids =>
              proc[p].u \in {"init", "recvStarted", "parkedStarted", "checkStarted",
                             "running", "wait", "dereg"}

\* C33: when the pump ended on a receive error other than EOF and Canceled
\* and the build function returned no error, Run returns an error and, in
\* export mode, its Return RPC carries no Result.
C33_PumpFailureFailsRun ==
    (run.pc = "done" /\ pump.end = "error" /\ run.ferr = Nil) =>
        /\ run.retError # Nil
        /\ \A i \in ReturnRpcs : ~rpcs[i].hasResult

\* C34: Deregister always completes: once Wait has reached its deferred
\* Deregister, the lock is taken, the mailbox is removed and closed, the
\* lock is released and Wait returns, whatever the pump does meanwhile,
\* the pump waiting in Send on that same mailbox included.
C34_DeregisterCompletes ==
    \A p \in Procs : (proc[p].u = "dereg") ~> (proc[p].u = "waited")

\* the Return RPCs that carry a Result in map form (Refs or RefsDeprecated)
\* with at least n entries
MapReturns(n) ==
    {i \in ReturnRpcs :
        /\ rpcs[i].hasResult
        /\ rpcs[i].body.Result.Result.kind \in {"Refs", "RefsDeprecated"}
        /\ Cardinality(DOMAIN rpcs[i].body.Result.Result.val) >= n}

====
